---- MODULE Spec2Model ----
(***************************************************************************)
(* A model of the toks analysis pipeline: the semantic re-labeler          *)
(* (combine.cpp: fix_symbols, do_symbol_check and its handlers), the scope *)
(* assigner (scope.cpp: assign_scope) and the emitter (output.cpp).        *)
(*                                                                         *)
(* The chunk list is a sequence of records; a chunk pointer is an index    *)
(* into it and NULL is 0.  A scope string is a sequence of atoms, each     *)
(* atom being one string appended by the code (":", "~", a name, "()",     *)
(* "{}" or a default tag), so that s += x is s \o <<x>>.                   *)
(***************************************************************************)
EXTENDS Naturals, Integers, Sequences, FiniteSets, TLC

VARIABLES chunks,   \* the per-file chunk list (fpd.chunk_list)
          lang,     \* fpd.lang_flags, a set of language names
          stage,    \* which pass of the pipeline is running
          cur,      \* the loop cursor pc of the running pass (0 = NULL)
          sqlvl,    \* square_level of the 2nd pass of fix_symbols
          out,      \* the records emitted so far by output()
          tk,       \* the lexer at work on a byte buffer (tokenize)
          lbl       \* the locals of the loop of combine_labels

vars == <<chunks, lang, stage, cur, sqlvl, out, tk, lbl>>

(***************************************************************************)
(* Bounds of the model.                                                    *)
(***************************************************************************)
MaxParams == 1     \* named parameters of a function in an input file
MaxStmts  == 1     \* statements in the body of a function definition
MaxDepth  == 1     \* extra brace pairs wrapped around that body
MaxParts  == 3     \* pieces appended to the head of a byte buffer

NULL == 0

(***************************************************************************)
(* Token kinds (c_token_t).  The close kind of a bracket is the enum value *)
(* after its open kind.                                                    *)
(***************************************************************************)
OpenKinds == {"PAREN_OPEN", "SPAREN_OPEN", "FPAREN_OPEN", "TPAREN_OPEN",
              "BRACE_OPEN", "VBRACE_OPEN", "ANGLE_OPEN", "SQUARE_OPEN"}

CloseOf(k) ==
   CASE k = "PAREN_OPEN"  -> "PAREN_CLOSE"
     [] k = "SPAREN_OPEN" -> "SPAREN_CLOSE"
     [] k = "FPAREN_OPEN" -> "FPAREN_CLOSE"
     [] k = "TPAREN_OPEN" -> "TPAREN_CLOSE"
     [] k = "BRACE_OPEN"  -> "BRACE_CLOSE"
     [] k = "VBRACE_OPEN" -> "VBRACE_CLOSE"
     [] k = "ANGLE_OPEN"  -> "ANGLE_CLOSE"
     [] k = "SQUARE_OPEN" -> "SQUARE_CLOSE"
     [] OTHER             -> "NONE"

(***************************************************************************)
(* chunk_t: the fields the passes read and write.                          *)
(***************************************************************************)
chunk_t(t, s, f, lv, bl, ln, col) ==
   [type |-> t, parent_type |-> "NONE", flags |-> f, level |-> lv,
    brace_level |-> bl, str |-> s, scope |-> <<>>, orig_line |-> ln,
    orig_col |-> col]

dummy == chunk_t("NONE", "", {}, 0, 0, 0, 0)

(* prev/next of do_symbol_check: the chunk, or the dummy chunk for NULL *)
At(cs, i) == IF i = NULL THEN dummy ELSE cs[i]

(* one statement after another: Op applied to the value v0 of the
   statement before it, which is worked out once however often Op reads
   it *)
AndThen(v0, Op(_)) == CHOOSE r \in {Op(v) : v \in {v0}} : TRUE

SetType(cs, i, t)   == IF i = NULL THEN cs ELSE [cs EXCEPT ![i].type = t]
SetParent(cs, i, p) == IF i = NULL THEN cs ELSE [cs EXCEPT ![i].parent_type = p]
AddFlags(cs, i, F)  == IF i = NULL THEN cs ELSE [cs EXCEPT ![i].flags = @ \cup F]
DelFlags(cs, i, F)  == IF i = NULL THEN cs ELSE [cs EXCEPT ![i].flags = @ \ F]
HasFlag(c, f)       == f \in c.flags

(***************************************************************************)
(* chunk_list.h predicates                                                 *)
(***************************************************************************)
chunk_is_newline(cs, i) ==
   i # NULL /\ cs[i].type \in {"NEWLINE", "NL_CONT"}

chunk_is_semicolon(cs, i) ==
   i # NULL /\ cs[i].type \in {"SEMICOLON", "VSEMICOLON"}

chunk_is_preproc(cs, i) ==
   i # NULL /\ HasFlag(cs[i], "IN_PREPROC")

chunk_is_type(cs, i) ==
   i # NULL /\ cs[i].type \in {"TYPE", "PTR_TYPE", "BYREF", "DC_MEMBER",
                               "QUALIFIER", "STRUCT", "ENUM", "UNION"}

chunk_is_token(cs, i, t) == i # NULL /\ cs[i].type = t

chunk_is_str(cs, i, s) == i # NULL /\ cs[i].str = s

chunk_is_star(cs, i) ==
   i # NULL /\ cs[i].str = "*" /\ cs[i].type # "OPERATOR_VAL"

chunk_is_addr(cs, i) ==
   i # NULL /\ (cs[i].type = "BYREF"
                \/ (cs[i].str = "&" /\ cs[i].type # "OPERATOR_VAL"))

chunk_is_paren_open(cs, i) ==
   i # NULL /\ cs[i].type \in {"PAREN_OPEN", "SPAREN_OPEN", "TPAREN_OPEN",
                               "FPAREN_OPEN"}

chunk_is_paren_close(cs, i) ==
   i # NULL /\ cs[i].type \in {"PAREN_CLOSE", "SPAREN_CLOSE", "TPAREN_CLOSE",
                               "FPAREN_CLOSE"}

chunk_is_opening_brace(cs, i) ==
   i # NULL /\ cs[i].type \in {"BRACE_OPEN", "VBRACE_OPEN"}

(***************************************************************************)
(* Faulty variants of five definitions below.  Each property that is       *)
(* proved of the pipeline must fail when the variant stands in for the     *)
(* definition it is named after.                                           *)
(***************************************************************************)
(* FcnProtoScan that takes whatever follows the close paren for the end of
   a prototype *)
FcnProtoScanNoBody(cs, pc, tmp) ==
   IF tmp = NULL THEN [type |-> cs[pc].type, semi |-> NULL]
   ELSE [type |-> "FUNC_PROTO", semi |-> NULL]

(* mark_scope_single that forgets the decoration *)
mark_scope_single_plain(cs, i, sc, deco, res) ==
   [cs EXCEPT ![i].scope =
       (IF Len(@) > 0 THEN @ \o <<":">> ELSE @)
       \o (IF Len(res) > 0 THEN res \o <<":">> ELSE <<>>)
       \o <<cs[sc].str>>]

(* the kind of a typedef alias without the struct/union/enum flags *)
TypedefKindPlain(c) == "TYPE"

(* DefaultScope without the STATIC and IN_PREPROC flags *)
DefaultScopeGlobal(c) == <<"<global>">>

(* fix_typedef of a tagged typedef that sets the parent of the alias and
   nothing else *)
TypedefTaggedPlain(cs, next, the_type) == SetParent(cs, the_type, "TYPEDEF")

(***************************************************************************)
(* Navigation (chunk_list.h).  CNAV_PREPROC: outside a preprocessor line   *)
(* preprocessor chunks are skipped; inside one, leaving it returns NULL.   *)
(***************************************************************************)
RECURSIVE SkipPreprocFwd(_, _)
SkipPreprocFwd(cs, j) ==
   IF j > Len(cs) THEN NULL
   ELSE IF HasFlag(cs[j], "IN_PREPROC") THEN SkipPreprocFwd(cs, j + 1)
   ELSE j

RECURSIVE SkipPreprocRev(_, _)
SkipPreprocRev(cs, j) ==
   IF j < 1 THEN NULL
   ELSE IF HasFlag(cs[j], "IN_PREPROC") THEN SkipPreprocRev(cs, j - 1)
   ELSE j

chunk_get_next(cs, i, nav) ==
   IF i = NULL \/ i + 1 > Len(cs) THEN NULL
   ELSE IF nav = "CNAV_ALL" THEN i + 1
   ELSE IF HasFlag(cs[i], "IN_PREPROC")
        THEN (IF HasFlag(cs[i + 1], "IN_PREPROC") THEN i + 1 ELSE NULL)
   ELSE SkipPreprocFwd(cs, i + 1)

chunk_get_prev(cs, i, nav) ==
   IF i = NULL \/ i - 1 < 1 THEN NULL
   ELSE IF nav = "CNAV_ALL" THEN i - 1
   ELSE IF HasFlag(cs[i], "IN_PREPROC")
        THEN (IF HasFlag(cs[i - 1], "IN_PREPROC") THEN i - 1 ELSE NULL)
   ELSE SkipPreprocRev(cs, i - 1)

RECURSIVE chunk_get_next_nnl(_, _, _)
chunk_get_next_nnl(cs, i, nav) ==
   LET Skip(j) == IF chunk_is_newline(cs, j)
                  THEN chunk_get_next_nnl(cs, j, nav) ELSE j
   IN  Skip(chunk_get_next(cs, i, nav))

RECURSIVE chunk_get_prev_nnl(_, _, _)
chunk_get_prev_nnl(cs, i, nav) ==
   LET Skip(j) == IF chunk_is_newline(cs, j)
                  THEN chunk_get_prev_nnl(cs, j, nav) ELSE j
   IN  Skip(chunk_get_prev(cs, i, nav))

(* nnlnp: from a preprocessor chunk skip newlines, otherwise skip newlines
   and preprocessor chunks *)
NnlnpSkips(cs, j, inpp) ==
   j # NULL /\ (IF inpp
                THEN chunk_is_preproc(cs, j) /\ chunk_is_newline(cs, j)
                ELSE chunk_is_newline(cs, j) \/ chunk_is_preproc(cs, j))

RECURSIVE NextNnlnpFrom(_, _, _)
NextNnlnpFrom(cs, i, inpp) ==
   LET Skip(j) == IF NnlnpSkips(cs, j, inpp)
                  THEN NextNnlnpFrom(cs, j, inpp) ELSE j
   IN  Skip(chunk_get_next(cs, i, "CNAV_ALL"))

chunk_get_next_nnlnp(cs, i) == NextNnlnpFrom(cs, i, chunk_is_preproc(cs, i))

RECURSIVE PrevNnlnpFrom(_, _, _)
PrevNnlnpFrom(cs, i, inpp) ==
   LET Skip(j) == IF NnlnpSkips(cs, j, inpp)
                  THEN PrevNnlnpFrom(cs, j, inpp) ELSE j
   IN  Skip(chunk_get_prev(cs, i, "CNAV_ALL"))

chunk_get_prev_nnlnp(cs, i) == PrevNnlnpFrom(cs, i, chunk_is_preproc(cs, i))

(* level < 0 matches every level *)
RECURSIVE chunk_get_next_type(_, _, _, _, _)
chunk_get_next_type(cs, i, t, level, nav) ==
   LET Find(j) ==
          IF j = NULL THEN NULL
          ELSE IF cs[j].type = t /\ (cs[j].level = level \/ level < 0) THEN j
          ELSE chunk_get_next_type(cs, j, t, level, nav)
   IN  Find(chunk_get_next(cs, i, nav))

RECURSIVE chunk_get_prev_type(_, _, _, _, _)
chunk_get_prev_type(cs, i, t, level, nav) ==
   LET Find(j) ==
          IF j = NULL THEN NULL
          ELSE IF cs[j].type = t /\ (cs[j].level = level \/ level < 0) THEN j
          ELSE chunk_get_prev_type(cs, j, t, level, nav)
   IN  Find(chunk_get_prev(cs, i, nav))

RECURSIVE chunk_get_next_str(_, _, _, _, _)
chunk_get_next_str(cs, i, s, level, nav) ==
   LET Find(j) ==
          IF j = NULL THEN NULL
          ELSE IF cs[j].str = s /\ (cs[j].level = level \/ level < 0) THEN j
          ELSE chunk_get_next_str(cs, j, s, level, nav)
   IN  Find(chunk_get_next(cs, i, nav))

chunk_skip_to_match(cs, i, nav) ==
   IF i # NULL /\ cs[i].type \in OpenKinds
   THEN chunk_get_next_type(cs, i, CloseOf(cs[i].type), cs[i].level, nav)
   ELSE i

(***************************************************************************)
(* The lexer (tokenize.cpp).  A source file is a sequence of lexemes with  *)
(* the whitespace other than newlines already dropped.                     *)
(***************************************************************************)
Idents == {"f", "g", "x", "y", "a", "b", "v", "T", "s", "foo", "foo_t",
           "N", "C", "m", "X", "MAX", "Foo", "a_t"}

(* the keyword table, filtered by language and by FLAG_PP *)
find_keyword_type(str, in_preproc, L) ==
   CASE str \in {"int", "void"}       -> "TYPE"
     [] str \in {"static", "extern"}  -> "QUALIFIER"
     [] str = "struct"                -> "STRUCT"
     [] str = "union"                 -> "UNION"
     [] str = "enum"                  -> "ENUM"
     [] str = "typedef"               -> "TYPEDEF"
     [] str = "sizeof"                -> "SIZEOF"
     [] str = "case"                  -> "CASE"
     [] str = "default"               -> "DEFAULT"
     [] str = "goto"                  -> "GOTO"
     [] str = "class" /\ "CPP" \in L  -> "CLASS"
     [] str = "namespace" /\ "CPP" \in L -> "NAMESPACE"
     [] str = "define" /\ in_preproc # "NONE" -> "PP_DEFINE"
     [] str = "defined" /\ in_preproc \notin {"NONE", "PP_DEFINE"}
                                      -> "PP_DEFINED"
     [] str = "if" /\ in_preproc \notin {"NONE", "PP_DEFINE"} -> "PP_IF"
     [] OTHER                         -> "WORD"

(* the punctuator table *)
find_punctuator(str) ==
   CASE str = "("  -> "PAREN_OPEN"
     [] str = ")"  -> "PAREN_CLOSE"
     [] str = "{"  -> "BRACE_OPEN"
     [] str = "}"  -> "BRACE_CLOSE"
     [] str = ";"  -> "SEMICOLON"
     [] str = ","  -> "COMMA"
     [] str = "="  -> "ASSIGN"
     [] str = "::" -> "DC_MEMBER"
     [] str = ":"  -> "COLON"
     [] str = "?"  -> "QUESTION"
     [] str = "~"  -> "INV"
     [] str = "#"  -> "POUND"
     [] str = "*"  -> "STAR"
     [] str = "[]" -> "TSQUARE"
     [] str = "["  -> "SQUARE_OPEN"
     [] str = "]"  -> "SQUARE_CLOSE"
     [] str = "&"  -> "AMP"
     [] str = "+"  -> "PLUS"
     [] str = "-"  -> "MINUS"
     [] OTHER      -> "NONE"

IsWordStr(str) ==
   str \in Idents \cup {"int", "void", "static", "extern", "struct", "union",
                        "enum", "typedef", "class", "namespace", "define",
                        "sizeof", "case", "default", "goto", "defined",
                        "if"}

(* parse_word: the kind and flags of a word; peek is the next lexeme *)
parse_word(str, peek, ncnl, in_preproc, L) ==
   IF in_preproc = "PP_DEFINE" /\ ncnl = 1
   THEN [type |-> IF peek = "(" THEN "MACRO_FUNC" ELSE "MACRO", flags |-> {}]
   ELSE LET t == find_keyword_type(str, in_preproc, L)
        IN  [type |-> t, flags |-> IF t # "WORD" THEN {"KEYWORD"} ELSE {}]

(* parse_next: word, punctuator, number or newline *)
parse_next(str, peek, ncnl, in_preproc, L) ==
   IF str = "\n" THEN [type |-> "NEWLINE", flags |-> {}]
   ELSE IF str = "1" THEN [type |-> "NUMBER", flags |-> {}]
   ELSE IF str = "\"s\"" THEN [type |-> "STRING", flags |-> {}]
   ELSE IF IsWordStr(str) THEN parse_word(str, peek, ncnl, in_preproc, L)
   ELSE IF find_punctuator(str) # "NONE"
        THEN [type |-> find_punctuator(str), flags |-> {"PUNCTUATOR"}]
   ELSE [type |-> "UNKNOWN", flags |-> {}]

(* Faulty variant: a cursor that does not count the rows *)
NextRowStuck(row, str) == row

(* the row of the cursor after the lexeme str read on the row row *)
NextRow(row, str) == IF str = "\n" THEN row + 1 ELSE row

(* the loop of tokenize(): acc is the chunk list so far, line and col the
   cursor.  A newline puts the cursor on column 1 of the next row, any
   other lexeme moves it by its length, and one blank separates two
   lexemes of a row. *)
RECURSIVE TokenizeFrom(_, _, _, _, _, _, _, _)
TokenizeFrom(toks, k, acc, ncnl, in_preproc, line, col, L) ==
   IF k > Len(toks) THEN acc
   ELSE
   LET peek  == IF k < Len(toks) THEN toks[k + 1] ELSE ""
       p     == parse_next(toks[k], peek, ncnl, in_preproc, L)
       isnl  == p.type = "NEWLINE"
       inpp  == IF isnl THEN "NONE" ELSE in_preproc
       start == inpp = "NONE" /\ p.type = "POUND"
                /\ (Len(acc) = 0 \/ acc[Len(acc)].type = "NEWLINE")
       type1 == IF inpp = "PREPROC" /\ p.type \notin {"PP_DEFINE", "PP_IF"}
                THEN "PP_OTHER"
                ELSE IF start THEN "PREPROC" ELSE p.type
       fl    == p.flags \cup (IF inpp # "NONE" \/ start
                              THEN {"IN_PREPROC"} ELSE {})
       c     == chunk_t(type1, toks[k], fl, 0, 0, line, col)
   IN  TokenizeFrom(toks, k + 1, Append(acc, c),
                    IF isnl THEN 0
                    ELSE IF inpp # "NONE" THEN ncnl + 1 ELSE ncnl,
                    IF start THEN "PREPROC"
                    ELSE IF inpp = "PREPROC" THEN type1 ELSE inpp,
                    NextRow(line, toks[k]),
                    IF isnl THEN 1 ELSE col + Len(toks[k]) + 1, L)

tokenize(toks, L) == TokenizeFrom(toks, 1, <<>>, 0, "NONE", 1, 1, L)

(***************************************************************************)
(* tokenize_cleanup: struct/union/enum + WORD => TYPE, WORD + WORD => TYPE *)
(***************************************************************************)
RECURSIVE TokenizeCleanupFrom(_, _)
TokenizeCleanupFrom(cs, i) ==
   LET next == chunk_get_next_nnl(cs, i, "CNAV_ALL")
   IN  IF i = NULL \/ next = NULL THEN cs
       ELSE IF cs[next].type = "WORD"
       THEN LET cs1 == IF cs[i].type \in {"ENUM", "UNION", "STRUCT"}
                       THEN SetType(cs, next, "TYPE") ELSE cs
                cs2 == IF cs1[i].type = "WORD"
                       THEN SetType(cs1, i, "TYPE") ELSE cs1
            IN  TokenizeCleanupFrom(cs2, next)
       ELSE TokenizeCleanupFrom(cs, next)

tokenize_cleanup(cs) ==
   IF Len(cs) = 0 THEN cs
   ELSE TokenizeCleanupFrom(cs, IF chunk_is_newline(cs, 1)
                                THEN chunk_get_next_nnl(cs, 1, "CNAV_ALL")
                                ELSE 1)

(***************************************************************************)
(* brace_cleanup: level, brace_level and the statement/expression starts.  *)
(* fr is the frame of the code outside preprocessor lines, pp the blank    *)
(* frame of a #define body (level 1, brace_level 1).                       *)
(***************************************************************************)
Frame(lv, bl, par, sc, ec) ==
   [level |-> lv, brace_level |-> bl, paren |-> par, stmt |-> sc, expr |-> ec]

(* parse_cleanup of one chunk c under frame f: the chunk and the frame *)
parse_cleanup(c, f) ==
   LET f1    == IF c.type \in {"PAREN_CLOSE", "SQUARE_CLOSE"}
                THEN [f EXCEPT !.level = @ - 1, !.paren = @ - 1]
                ELSE IF c.type = "BRACE_CLOSE"
                THEN [f EXCEPT !.level = @ - 1, !.brace_level = @ - 1]
                ELSE f
       mark  == (f.stmt = 0 \/ f.expr = 0)
                /\ c.type \notin {"SEMICOLON", "BRACE_CLOSE", "PAREN_CLOSE",
                                   "SQUARE_CLOSE"}
       fl    == IF mark
                THEN {"EXPR_START"}
                     \cup (IF f.stmt = 0 THEN {"STMT_START"} ELSE {})
                ELSE {}
       c1    == [c EXCEPT !.level = f1.level, !.brace_level = f1.brace_level,
                          !.flags = @ \cup fl]
       f2    == IF c.type \in {"PAREN_OPEN", "SQUARE_OPEN"}
                THEN [f1 EXCEPT !.level = @ + 1, !.paren = @ + 1]
                ELSE IF c.type = "BRACE_OPEN"
                THEN [f1 EXCEPT !.level = @ + 1, !.brace_level = @ + 1]
                ELSE f1
       rst   == c.type \in {"BRACE_OPEN", "BRACE_CLOSE"}
                \/ (c.type = "SEMICOLON" /\ f2.paren = 0)
       rex   == rst \/ c.type \in {"ASSIGN", "PAREN_OPEN", "SQUARE_OPEN",
                                     "SEMICOLON", "COMMA"}
       f3    == [f2 EXCEPT !.stmt = IF rst THEN 0 ELSE f.stmt + 1,
                           !.expr = IF rex THEN 0 ELSE f.expr + 1]
   IN  [c |-> c1, f |-> f3]

RECURSIVE BraceCleanupFrom(_, _, _, _)
BraceCleanupFrom(cs, k, fr, pp) ==
   IF k > Len(cs) THEN cs
   ELSE IF cs[k].type = "NEWLINE"
   THEN BraceCleanupFrom([cs EXCEPT ![k].level = fr.level,
                                    ![k].brace_level = fr.brace_level],
                         k + 1, fr, pp)
   ELSE IF HasFlag(cs[k], "IN_PREPROC")
   THEN LET f0 == IF cs[k].type = "PREPROC" THEN Frame(1, 1, 0, 1, 1) ELSE pp
            r  == parse_cleanup(cs[k], f0)
        IN  BraceCleanupFrom([cs EXCEPT ![k] = r.c], k + 1, fr, r.f)
   ELSE LET r == parse_cleanup(cs[k], fr)
        IN  BraceCleanupFrom([cs EXCEPT ![k] = r.c], k + 1, r.f, pp)

brace_cleanup(cs) ==
   BraceCleanupFrom(cs, 1, Frame(0, 0, 0, 0, 0), Frame(1, 1, 0, 1, 1))

(* the chunk list fix_symbols starts from *)
Lex(toks, L) == brace_cleanup(tokenize_cleanup(tokenize(toks, L)))

(***************************************************************************)
(* combine.cpp: helpers of the re-labeler.  An operator that changes the   *)
(* chunk list takes it and returns the new one.                            *)
(***************************************************************************)
make_type(cs, i) ==
   IF i = NULL THEN cs
   ELSE IF cs[i].type = "WORD" THEN SetType(cs, i, "TYPE")
   ELSE IF chunk_is_star(cs, i) THEN SetType(cs, i, "PTR_TYPE")
   ELSE IF chunk_is_addr(cs, i) THEN SetType(cs, i, "BYREF")
   ELSE cs

(* the chunks strictly between po and pclose, walked with CNAV_PREPROC *)
RECURSIVE FlagInside(_, _, _, _, _, _)
FlagInside(cs, pc, pclose, flags, parenttype, parent_all) ==
   IF pc = NULL \/ pc = pclose THEN cs
   ELSE FlagInside([cs EXCEPT ![pc].flags = @ \cup flags,
                              ![pc].parent_type =
                                 IF parent_all THEN parenttype ELSE @],
                   chunk_get_next(cs, pc, "CNAV_PREPROC"), pclose,
                   flags, parenttype, parent_all)

(* flag_parens2 once the close paren is known: the two ends *)
FlagParensEnds(cs, po, paren_close, opentype, parenttype) ==
   [cs EXCEPT ![po].type = IF opentype # "NONE" THEN opentype ELSE @,
              ![paren_close].type =
                 IF opentype # "NONE" THEN CloseOf(opentype) ELSE @,
              ![po].parent_type = IF parenttype # "NONE" THEN parenttype ELSE @,
              ![paren_close].parent_type =
                 IF parenttype # "NONE" THEN parenttype ELSE @]

(* Faulty variant: the open paren is retagged and its match is not *)
flag_parens_open(cs, po, flags, opentype, parenttype, parent_all) ==
   IF chunk_skip_to_match(cs, po, "CNAV_PREPROC") \in {NULL, po} THEN cs
   ELSE [cs EXCEPT ![po].type = IF opentype # "NONE" THEN opentype ELSE @,
                   ![po].parent_type =
                      IF parenttype # "NONE" THEN parenttype ELSE @]

flag_parens(cs, po, flags, opentype, parenttype, parent_all) ==
   LET Flag(paren_close) ==
          IF paren_close = NULL \/ po = paren_close THEN cs
          ELSE FlagParensEnds(
                  IF flags # {} \/ (parent_all /\ parenttype # "NONE")
                  THEN FlagInside(cs, chunk_get_next(cs, po, "CNAV_PREPROC"),
                                  paren_close, flags, parenttype, parent_all)
                  ELSE cs,
                  po, paren_close, opentype, parenttype)
   IN  Flag(chunk_skip_to_match(cs, po, "CNAV_PREPROC"))

(* what flag_parens returns: the chunk after the close paren *)
FlagParensNext(cs, po) ==
   chunk_get_next_nnl(cs, chunk_skip_to_match(cs, po, "CNAV_PREPROC"),
                      "CNAV_PREPROC")

set_paren_parent(cs, start, parent) ==
   LET Set(end) == IF end # NULL
                   THEN [cs EXCEPT ![start].parent_type = parent,
                                   ![end].parent_type = parent]
                   ELSE cs
   IN  Set(chunk_skip_to_match(cs, start, "CNAV_PREPROC"))

RECURSIVE SkipDcFrom(_, _, _)
SkipDcFrom(cs, pc, next) ==
   LET Step(pc1) == SkipDcFrom(cs, pc1, chunk_get_next_nnl(cs, pc1, "CNAV_ALL"))
   IN  IF next # NULL /\ cs[next].type = "DC_MEMBER"
       THEN Step(chunk_get_next_nnl(cs, next, "CNAV_ALL"))
       ELSE pc

skip_dc_member(cs, start) ==
   IF start = NULL THEN NULL
   ELSE SkipDcFrom(cs, start,
                   IF cs[start].type = "DC_MEMBER" THEN start
                   ELSE chunk_get_next_nnl(cs, start, "CNAV_ALL"))

(* stk is the ChunkStack: a sequence of chunk indices *)
RECURSIVE MarkWordTypes(_, _)
MarkWordTypes(cs, stk) ==
   IF Len(stk) = 0 THEN cs
   ELSE MarkWordTypes(
           IF cs[stk[Len(stk)]].type \in {"WORD", "TYPE"}
           THEN [cs EXCEPT ![stk[Len(stk)]].type = "TYPE",
                           ![stk[Len(stk)]].flags = @ \cup {"VAR_TYPE"}]
           ELSE cs,
           SubSeq(stk, 1, Len(stk) - 1))

(* mark_variable_stack, the name on top of the stack once the words under
   it are types *)
MarkVarName(cs, var_name, has_types) ==
   IF cs[var_name].type = "WORD"
   THEN IF has_types
        THEN AddFlags(cs, var_name, {"VAR_DEF"})
        ELSE [cs EXCEPT ![var_name].type = "TYPE",
                        ![var_name].flags = @ \cup {"VAR_TYPE"}]
   ELSE cs

mark_variable_stack(cs, stk) ==
   LET Mark(var_name, rest) ==
          MarkVarName(MarkWordTypes(cs, rest), var_name, Len(rest) > 0)
   IN  IF Len(stk) = 0 THEN cs
       ELSE Mark(stk[Len(stk)],
                 IF stk[Len(stk)] > 1
                    /\ cs[stk[Len(stk)] - 1].type = "DC_MEMBER"
                 THEN stk ELSE SubSeq(stk, 1, Len(stk) - 1))

RECURSIVE FcnDefParamsFrom(_, _, _, _)
FcnDefParamsFrom(cs, pc0, level, stk) ==
   LET Step(pc) ==
          IF pc = NULL \/ cs[pc].level < level
          THEN mark_variable_stack(cs, stk)
          ELSE IF cs[pc].level > level
          THEN FcnDefParamsFrom(cs, pc, level, stk)
          ELSE IF chunk_is_star(cs, pc)
          THEN FcnDefParamsFrom(SetType(cs, pc, "PTR_TYPE"), pc, level,
                                Append(stk, pc))
          ELSE IF cs[pc].type = "AMP"
          THEN FcnDefParamsFrom(SetType(cs, pc, "BYREF"), pc, level,
                                Append(stk, pc))
          ELSE IF cs[pc].type \in {"WORD", "TYPE", "TYPE_WRAP"}
          THEN FcnDefParamsFrom(cs, pc, level, Append(stk, pc))
          ELSE IF cs[pc].type \in {"COMMA", "ASSIGN"}
          THEN FcnDefParamsFrom(
                  [mark_variable_stack(cs, stk) EXCEPT ![pc].parent_type =
                      IF cs[pc].type = "ASSIGN" THEN "FUNC_PROTO" ELSE @],
                  pc, level, <<>>)
          ELSE FcnDefParamsFrom(cs, pc, level, stk)
   IN  Step(chunk_get_next_nnl(cs, pc0, "CNAV_ALL"))

RECURSIVE SkipToParenOpen(_, _)
SkipToParenOpen(cs, start) ==
   IF start # NULL /\ ~chunk_is_paren_open(cs, start)
   THEN SkipToParenOpen(cs, chunk_get_next_nnl(cs, start, "CNAV_ALL"))
   ELSE start

fix_fcn_def_params(cs, start0) ==
   LET Fix(start) == IF start = NULL THEN cs
                     ELSE FcnDefParamsFrom(cs, start, cs[start].level + 1,
                                           <<>>)
   IN  Fix(SkipToParenOpen(cs, start0))

RECURSIVE skip_to_next_statement(_, _)
skip_to_next_statement(cs, pc) ==
   IF pc # NULL /\ ~chunk_is_semicolon(cs, pc)
      /\ cs[pc].type \notin {"BRACE_OPEN", "BRACE_CLOSE"}
   THEN skip_to_next_statement(cs, chunk_get_next_nnl(cs, pc, "CNAV_ALL"))
   ELSE pc

(* Faulty variant: skip_expression that steps over the "=" or "[" only *)
skip_expression_one(cs, start) == chunk_get_next_nnl(cs, start, "CNAV_ALL")

RECURSIVE SkipExprFrom(_, _, _)
SkipExprFrom(cs, pc, level) ==
   IF pc # NULL /\ cs[pc].level >= level
   THEN IF cs[pc].level = level
           /\ (chunk_is_semicolon(cs, pc) \/ cs[pc].type = "COMMA")
        THEN pc
        ELSE SkipExprFrom(cs, chunk_get_next_nnl(cs, pc, "CNAV_ALL"), level)
   ELSE pc

skip_expression(cs, start) == SkipExprFrom(cs, start, cs[start].level)

(* mark_variable_definition, what one chunk of the declarator list becomes *)
MarkVarDefChunk(c, flags) ==
   IF c.type \in {"WORD", "FUNC_CTOR_VAR"}
   THEN (IF ~HasFlag(c, "IN_ENUM") THEN [c EXCEPT !.flags = @ \cup flags]
         ELSE c)
   ELSE IF c.str = "*" /\ c.type # "OPERATOR_VAL"
   THEN [c EXCEPT !.type = "PTR_TYPE"]
   ELSE IF c.type = "BYREF" \/ (c.str = "&" /\ c.type # "OPERATOR_VAL")
   THEN [c EXCEPT !.type = "BYREF"]
   ELSE c

RECURSIVE MarkVarDefFrom(_, _, _, _)
MarkVarDefFrom(cs, pc, level, flags) ==
   IF pc # NULL /\ ~chunk_is_semicolon(cs, pc) /\ cs[pc].level = level
   THEN MarkVarDefFrom([cs EXCEPT ![pc] = MarkVarDefChunk(@, flags)],
                       IF cs[pc].type \in {"SQUARE_OPEN", "ASSIGN"}
                       THEN skip_expression(cs, pc)
                       ELSE chunk_get_next_nnl(cs, pc, "CNAV_ALL"),
                       level, flags)
   ELSE cs

mark_variable_definition(cs, start, flags) ==
   IF start = NULL THEN cs
   ELSE MarkVarDefFrom(cs, start, cs[start].level, flags)

skip_template_next(cs, ang_open) ==
   IF ang_open # NULL /\ cs[ang_open].type = "ANGLE_OPEN"
   THEN chunk_get_next_nnl(cs,
           chunk_get_next_type(cs, ang_open, "ANGLE_CLOSE",
                               cs[ang_open].level, "CNAV_ALL"),
           "CNAV_ALL")
   ELSE ang_open

skip_template_prev(cs, ang_close) ==
   IF ang_close # NULL /\ cs[ang_close].type = "ANGLE_CLOSE"
   THEN chunk_get_prev_nnl(cs,
           chunk_get_prev_type(cs, ang_close, "ANGLE_OPEN",
                               cs[ang_close].level, "CNAV_ALL"),
           "CNAV_ALL")
   ELSE ang_close

skip_attribute_next(cs, attr) ==
   IF attr # NULL /\ cs[attr].type = "ATTRIBUTE"
   THEN LET pc == chunk_get_next(cs, attr, "CNAV_ALL")
        IN  IF pc # NULL /\ cs[pc].type = "FPAREN_OPEN"
            THEN chunk_get_next_nnl(cs,
                    chunk_get_next_type(cs, attr, "FPAREN_CLOSE",
                                        cs[attr].level, "CNAV_ALL"),
                    "CNAV_ALL")
            ELSE pc
   ELSE attr

skip_attribute_prev(cs, fp_close) ==
   IF fp_close # NULL /\ cs[fp_close].type = "FPAREN_CLOSE"
      /\ cs[fp_close].parent_type = "ATTRIBUTE"
   THEN chunk_get_prev_nnl(cs,
           chunk_get_prev_type(cs, fp_close, "ATTRIBUTE",
                               cs[fp_close].level, "CNAV_ALL"),
           "CNAV_ALL")
   ELSE fp_close

(* fix_var_def, first loop: the stack of type-like chunks, the flags and
   the chunk that ends the run *)
VarDefFlags(flags, c) ==
   IF c.type = "QUALIFIER" /\ c.str = "extern"
   THEN (flags \ {"VAR_DEF"}) \cup {"VAR_DECL"}
   ELSE IF c.type = "QUALIFIER" /\ c.str = "static"
   THEN flags \cup {"STATIC"}
   ELSE flags

RECURSIVE VarDefScan(_, _, _, _)
VarDefScan(cs, pc, stk, flags) ==
   IF pc # NULL
      /\ (cs[pc].type \in {"TYPE", "WORD", "QUALIFIER", "DC_MEMBER", "MEMBER"}
          \/ chunk_is_addr(cs, pc) \/ chunk_is_star(cs, pc))
   THEN VarDefScan(cs,
                   skip_attribute_next(cs,
                      skip_template_next(cs,
                         chunk_get_next_nnl(cs, pc, "CNAV_ALL"))),
                   Append(stk, pc), VarDefFlags(flags, cs[pc]))
   ELSE [stk |-> stk, flags |-> flags, end |-> pc]

(* the '::' walk of fix_var_def; idx counts from 0 as in the code *)
RECURSIVE VarDefDcWalk(_, _, _)
VarDefDcWalk(cs, stk, idx) ==
   IF idx > 0
   THEN IF cs[stk[idx + 1]].type \notin {"DC_MEMBER", "MEMBER"}
        THEN [cs |-> cs, idx |-> idx]
        ELSE IF cs[stk[idx]].type \notin {"WORD", "TYPE"}
        THEN [cs |-> cs, idx |-> idx - 1]
        ELSE VarDefDcWalk(IF cs[stk[idx + 1]].type = "DC_MEMBER"
                          THEN make_type(cs, stk[idx]) ELSE cs,
                          stk, idx - 2)
   ELSE [cs |-> cs, idx |-> idx]

RECURSIVE VarDefTypes(_, _, _)
VarDefTypes(cs, stk, k) ==
   IF k >= Len(stk) THEN cs
   ELSE VarDefTypes(AddFlags(make_type(cs, stk[k]), stk[k], {"VAR_TYPE"}),
                    stk, k + 1)

(* fix_var_def after the scan: the chunk it returns *)
VarDefReturn(cs, end) ==
   IF cs[end].type = "COMMA" THEN chunk_get_next_nnl(cs, end, "CNAV_ALL")
   ELSE skip_to_next_statement(cs, end)

(* fix_var_def: [cs, pc], the new chunk list and the chunk it returns *)
fix_var_def(cs, start) ==
   LET Ret(cs2, end) == [cs |-> cs2, pc |-> VarDefReturn(cs2, end)]
       Mark(dc, sc) ==
          IF dc.idx + 1 <= 0
          THEN [cs |-> dc.cs, pc |-> skip_to_next_statement(dc.cs, sc.end)]
          ELSE Ret(mark_variable_definition(VarDefTypes(dc.cs, sc.stk, 1),
                                            sc.stk[Len(sc.stk)], sc.flags),
                   sc.end)
       Fix(sc) ==
          IF sc.end = NULL THEN [cs |-> cs, pc |-> NULL]
          ELSE IF Len(sc.stk) <= 1
                  \/ cs[sc.end].type \in {"FUNC_DEF", "FUNC_PROTO",
                                          "FUNC_CLASS", "OPERATOR"}
          THEN [cs |-> cs, pc |-> skip_to_next_statement(cs, sc.end)]
          ELSE Mark(IF Len(sc.stk) >= 3
                       /\ cs[sc.stk[Len(sc.stk) - 1]].type
                             \in {"MEMBER", "DC_MEMBER"}
                    THEN VarDefDcWalk(cs, sc.stk, Len(sc.stk) - 2)
                    ELSE [cs |-> cs, idx |-> Len(sc.stk) - 2],
                    sc)
   IN  Fix(VarDefScan(cs, start, <<>>, {"VAR_DEF"}))

(* mark_struct_union_body: fix_var_def over the members of a body *)
RECURSIVE StructBodyFrom(_, _, _)
StructBodyFrom(cs, start, pc) ==
   LET Again(r) == StructBodyFrom(r.cs, start, r.pc)
       Member(pc1) == IF pc1 = NULL THEN cs ELSE Again(fix_var_def(cs, pc1))
   IN  IF pc # NULL /\ cs[pc].level >= cs[start].level
          /\ ~(cs[pc].level = cs[start].level /\ cs[pc].type = "BRACE_CLOSE")
       THEN Member(IF cs[pc].type \in {"BRACE_OPEN", "BRACE_CLOSE",
                                       "SEMICOLON"}
                   THEN chunk_get_next_nnl(cs, pc, "CNAV_ALL") ELSE pc)
       ELSE cs

mark_struct_union_body(cs, start) == StructBodyFrom(cs, start, start)

(* the loop at the end of fix_enum_struct_union over the declared names;
   the result is [cs, next, ret]: ret is TRUE when the code returns from
   inside the loop *)
EsuVarChunk(c, flags) ==
   IF c.type = "WORD" THEN [c EXCEPT !.flags = @ \cup flags]
   ELSE IF c.type = "STAR" THEN [c EXCEPT !.type = "PTR_TYPE"]
   ELSE c

RECURSIVE EsuVarLoop(_, _, _, _, _)
EsuVarLoop(cs, pc, next, flags, in_fcn_paren) ==
   IF next # NULL /\ ~chunk_is_semicolon(cs, next)
      /\ cs[next].type # "ASSIGN"
      /\ (in_fcn_paren <=> HasFlag(cs[next], "IN_FCN_DEF"))
   THEN IF cs[next].level = cs[pc].level
        THEN IF cs[next].type \in {"COMMA", "FPAREN_CLOSE"}
                /\ (cs[next].flags \cap {"IN_FCN_DEF", "IN_FCN_CALL"}) # {}
             THEN [cs |-> cs, next |-> next, ret |-> TRUE]
             ELSE EsuVarLoop([cs EXCEPT ![next] = EsuVarChunk(@, flags)], pc,
                             chunk_get_next_nnl(cs, next, "CNAV_ALL"),
                             flags, in_fcn_paren)
        ELSE EsuVarLoop(cs, pc, chunk_get_next_nnl(cs, next, "CNAV_ALL"),
                        flags, in_fcn_paren)
   ELSE [cs |-> cs, next |-> next, ret |-> FALSE]

(* fix_enum_struct_union, the end: the names declared after the tag or the
   body, and the parent of the closing semicolon.  prev is the tag, or
   NULL once a body was seen. *)
EsuVars(cs, pc, prev, next, flags) ==
   LET Semi(r) ==
          IF ~r.ret /\ r.next # NULL /\ prev = NULL
             /\ r.cs[r.next].type = "SEMICOLON"
             /\ r.cs[r.next].parent_type = "NONE"
          THEN SetParent(r.cs, r.next, cs[pc].type)
          ELSE r.cs
   IN  IF next = NULL \/ cs[next].type = "PAREN_CLOSE" THEN cs
       ELSE Semi(EsuVarLoop(cs, pc, next, flags,
                            HasFlag(cs[pc], "IN_FCN_DEF")))

(* fix_enum_struct_union at the open brace next of a body; prev is the tag
   or NULL *)
EsuBody(cs, pc, prev, next) ==
   LET Close(cs3, close) ==
          EsuVars(AddFlags(SetParent(cs3, close, cs[pc].type), prev, {"DEF"}),
                  pc, NULL, chunk_get_next_nnl(cs3, close, "CNAV_ALL"),
                  {"VAR_DEF", "VAR_INLINE"})
       Body(cs2) ==
          Close(SetParent(IF cs[pc].type \in {"UNION", "STRUCT"}
                          THEN mark_struct_union_body(cs2, next) ELSE cs2,
                          next, cs[pc].type),
                chunk_get_next_type(cs, next, "BRACE_CLOSE", cs[pc].level,
                                    "CNAV_ALL"))
   IN  Body(flag_parens(cs, next,
                        IF cs[pc].type = "ENUM" THEN {"IN_ENUM"}
                        ELSE {"IN_STRUCT"},
                        "NONE", "NONE", FALSE))

(* fix_enum_struct_union once the tag is passed: next is the chunk after
   the tag prev (or after pc when there is no tag and prev is NULL) *)
EsuAfterTag(cs, pc, prev, next) ==
   IF prev # NULL /\ next = NULL THEN cs
   ELSE IF next # NULL /\ cs[next].type = "BRACE_OPEN"
   THEN EsuBody(cs, pc, prev, next)
   ELSE EsuVars(IF prev # NULL
                THEN AddFlags(cs, prev,
                              IF ~chunk_is_semicolon(cs, next)
                              THEN {"REF"} ELSE {"PROTO"})
                ELSE cs,
                pc, prev, next, {"VAR_DEF"})

fix_enum_struct_union(cs, pc) ==
   LET Tag(next) ==
          IF next # NULL /\ cs[next].type = "TYPE"
          THEN EsuAfterTag(SetParent(cs, next, cs[pc].type), pc, next,
                           chunk_get_next_nnl(cs, next, "CNAV_ALL"))
          ELSE EsuAfterTag(cs, pc, NULL, next)
   IN  IF cs[pc].parent_type = "C_CAST" THEN cs
       ELSE Tag(chunk_get_next_nnl(cs, pc, "CNAV_ALL"))

(* the first loop of fix_typedef: [cs, the_type, last_op] *)
RECURSIVE TypedefScan(_, _, _, _, _)
TypedefScan(cs, start, next0, the_type, last_op) ==
   LET Typed(cs2, next) ==
          TypedefScan(cs2, start, next,
                      IF cs2[next].type = "TYPE" THEN next ELSE the_type,
                      IF cs2[next].str = "(" THEN next ELSE last_op)
       Step(next) ==
          IF next = NULL \/ cs[next].level < cs[start].level
          THEN [cs |-> cs, the_type |-> the_type, last_op |-> last_op]
          ELSE IF cs[start].level # cs[next].level
          THEN AndThen(AddFlags(cs, next, {"IN_TYPEDEF"}),
                       LAMBDA c : TypedefScan(c, start, next, the_type,
                                              last_op))
          ELSE IF chunk_is_semicolon(cs, next)
          THEN [cs |-> [cs EXCEPT ![next].flags = @ \cup {"IN_TYPEDEF"},
                                  ![next].parent_type = "TYPEDEF"],
                the_type |-> the_type, last_op |-> last_op]
          ELSE IF cs[next].type = "ATTRIBUTE"
          THEN [cs |-> AddFlags(cs, next, {"IN_TYPEDEF"}),
                the_type |-> the_type, last_op |-> last_op]
          ELSE AndThen(DelFlags(make_type(AddFlags(cs, next, {"IN_TYPEDEF"}),
                                          next),
                                next, {"VAR_DEF"}),
                       LAMBDA c : Typed(c, next))
   IN  AndThen(chunk_get_next_nnl(cs, next0, "CNAV_PREPROC"), Step)


RECURSIVE NamespaceFrom(_, _, _)
NamespaceFrom(cs, pc, is_using) ==
   IF pc = NULL THEN cs
   ELSE IF cs[pc].type = "BRACE_OPEN"
   THEN flag_parens(SetParent(cs, pc, "NAMESPACE"), pc, {"IN_NAMESPACE"},
                    "NONE", "NAMESPACE", FALSE)
   ELSE IF cs[pc].type = "SEMICOLON"
   THEN SetParent(cs, pc, IF is_using THEN "USING" ELSE "NAMESPACE")
   ELSE NamespaceFrom(SetParent(cs, pc, "NAMESPACE"),
                      chunk_get_next_nnl(cs, pc, "CNAV_ALL"), is_using)

mark_namespace(cs, pns) ==
   LET Name(cs1, pc, is_using) ==
          NamespaceFrom(IF At(cs1, pc).type = "WORD"
                        THEN AddFlags(cs1, pc,
                                      IF is_using THEN {"REF"} ELSE {"DEF"})
                        ELSE cs1,
                        pc, is_using)
       Using(is_using) ==
          Name(IF is_using THEN SetParent(cs, pns, "USING") ELSE cs,
               chunk_get_next_nnl(cs, pns, "CNAV_ALL"), is_using)
   IN  Using(chunk_is_token(cs, chunk_get_prev_nnl(cs, pns, "CNAV_ALL"),
                            "USING"))

(* the flags mark_function_return_type moves to the_type for the
   qualifier pc *)
ReturnTypeQualifier(cs, the_type, pc) ==
   IF cs[pc].type # "QUALIFIER" THEN cs
   ELSE IF cs[pc].str = "extern"
   THEN [cs EXCEPT ![the_type].flags =
            IF "VAR_DEF" \in @ THEN (@ \ {"VAR_DEF"}) \cup {"VAR_DECL"}
            ELSE @]
   ELSE IF cs[pc].str = "static" THEN AddFlags(cs, the_type, {"STATIC"})
   ELSE cs

(* mark_function_return_type: walk back from pc over the return type *)
RECURSIVE mark_function_return_type(_, _, _, _)
mark_function_return_type(cs, the_type, pc, parent_type) ==
   IF pc = NULL THEN cs
   ELSE IF (~chunk_is_type(cs, pc)
            /\ cs[pc].type \notin {"OPERATOR", "WORD", "ADDR"})
           \/ HasFlag(cs[pc], "IN_PREPROC")
   THEN cs
   ELSE mark_function_return_type(
           make_type([ReturnTypeQualifier(cs, the_type, pc)
                        EXCEPT ![pc].parent_type =
                           IF parent_type # "NONE" THEN parent_type ELSE @],
                     pc),
           the_type, chunk_get_prev_nnl(cs, pc, "CNAV_ALL"), parent_type)

(* chunk_is_word: the text starts with a letter or an underscore *)
chunk_is_word(cs, i) == i # NULL /\ IsWordStr(cs[i].str)

(* chunk_ends_type: can the chunks that end at pc be a return type *)
(* Faulty variant: no chunk ends a type *)
chunk_ends_type_never(cs, pc) == FALSE

RECURSIVE ChunkEndsTypeFrom(_, _, _, _)
ChunkEndsTypeFrom(cs, pc, cnt, last_lval) ==
   IF pc = NULL THEN TRUE
   ELSE IF cs[pc].type \in {"WORD", "TYPE", "PTR_TYPE", "STRUCT", "DC_MEMBER",
                            "QUALIFIER"}
   THEN AndThen(chunk_get_prev_nnl(cs, pc, "CNAV_ALL"),
                LAMBDA prev : ChunkEndsTypeFrom(cs, prev, cnt + 1,
                                                HasFlag(cs[pc], "LVALUE")))
   ELSE IF chunk_is_semicolon(cs, pc)
           \/ cs[pc].type \in {"TYPEDEF", "BRACE_OPEN", "BRACE_CLOSE"}
           \/ (cs[pc].type = "SPAREN_OPEN" /\ last_lval)
   THEN cnt > 0
   ELSE FALSE

chunk_ends_type(cs, pc) ==
   AndThen(pc, LAMBDA last : ChunkEndsTypeFrom(cs, last, 0, FALSE))

(* mark_function_type, the scan back across the name: where it stopped,
   what it counted, and go = FALSE for a chunk it does not expect *)
RECURSIVE FcnTypeScan(_, _, _, _, _)
FcnTypeScan(cs, tmp0, star_count, word_count, ptrcnk) ==
   LET Stop(tmp, go) ==
          [go |-> go, tmp |-> tmp, star_count |-> star_count,
           word_count |-> word_count, ptrcnk |-> ptrcnk]
       Step(tmp) ==
          IF tmp = NULL THEN Stop(NULL, TRUE)
          ELSE IF chunk_is_star(cs, tmp)
                  \/ cs[tmp].type \in {"PTR_TYPE", "CARET"}
          THEN FcnTypeScan(cs, tmp, star_count + 1, word_count, tmp)
          ELSE IF chunk_is_word(cs, tmp) \/ cs[tmp].type \in {"WORD", "TYPE"}
          THEN FcnTypeScan(cs, tmp, star_count, word_count + 1, ptrcnk)
          ELSE IF cs[tmp].type = "DC_MEMBER"
          THEN FcnTypeScan(cs, tmp, star_count, 0, ptrcnk)
          ELSE IF chunk_is_str(cs, tmp, "(") THEN Stop(tmp, TRUE)
          ELSE Stop(tmp, FALSE)
   IN  AndThen(chunk_get_prev_nnl(cs, tmp0, "CNAV_ALL"), Step)

(* mark_function_type, the step back from the close paren to the chunk
   whose text starts with an open paren, which becomes the TPAREN_OPEN *)
RECURSIVE FcnTypeOpen(_, _, _, _, _)
FcnTypeOpen(cs, pc, tmp0, varcnk, ptp) ==
   LET Ret(cs1, tmp) ==
          mark_function_return_type(
             IF tmp # NULL
                /\ cs1[tmp].type \in {"FUNCTION", "FUNC_CALL",
                                      "FUNC_CALL_USER", "FUNC_DEF",
                                      "FUNC_PROTO"}
             THEN DelFlags(SetType(cs1, tmp, "TYPE"), tmp, {"VAR_DEF"})
             ELSE cs1,
             varcnk, tmp, ptp)
       Step(tmp) ==
          IF tmp = NULL THEN cs
          ELSE IF cs[tmp].str = "("
          THEN Ret([cs EXCEPT ![tmp].flags =
                                 IF ~HasFlag(cs[pc], "IN_TYPEDEF")
                                 THEN @ \cup {"VAR_DEF"} ELSE @,
                              ![tmp].type = "TPAREN_OPEN",
                              ![tmp].parent_type = ptp],
                   chunk_get_prev_nnl(cs, tmp, "CNAV_ALL"))
          ELSE FcnTypeOpen(cs, pc, tmp, varcnk, ptp)
   IN  AndThen(chunk_get_prev_nnl(cs, tmp0, "CNAV_ALL"), Step)

(* mark_function_type: pc is the close paren of the parenthesised name in front of the
   open paren of the parameters.  The anonymous block type of Objective C
   is left out: no input of the model is in that language. *)
mark_function_type(cs, pc) ==
   LET NoGo(tmp) ==
          IF chunk_is_paren_open(cs, tmp)
          THEN flag_parens(cs, tmp, {}, "FPAREN_OPEN", "FUNC_CALL", FALSE)
          ELSE cs
       nogo_exit == NoGo(chunk_get_next_nnl(cs, pc, "CNAV_ALL"))
       ptp == IF HasFlag(cs[pc], "IN_TYPEDEF") THEN "FUNC_TYPE"
              ELSE "FUNC_VAR"
       After(cs1, aft, pt) ==
          IF chunk_is_semicolon(cs1, aft)
          THEN SetParent(cs1, aft, IF HasFlag(cs1[aft], "IN_TYPEDEF")
                                   THEN "TYPEDEF" ELSE "FUNC_VAR")
          ELSE IF chunk_is_token(cs1, aft, "BRACE_OPEN")
          THEN flag_parens(cs1, aft, {}, "NONE", pt, FALSE)
          ELSE cs1
       Var(cs1, varcnk) ==
          IF HasFlag(cs[pc], "IN_TYPEDEF")
          THEN SetType(cs1, varcnk, "FUNC_TYPE")
          ELSE AddFlags(SetType(cs1, varcnk, "FUNC_VAR"), varcnk, {"VAR_DEF"})
       Mark(varcnk, apo, apc, aft, pt, sc) ==
          AndThen(AndThen(AndThen(
             [Var(IF sc.ptrcnk # NULL
                  THEN SetType(cs, sc.ptrcnk, "PTR_TYPE") ELSE cs,
                  varcnk)
                EXCEPT ![pc].type = "TPAREN_CLOSE",
                       ![pc].parent_type = ptp,
                       ![apo].type = "FPAREN_OPEN",
                       ![apo].parent_type = pt,
                       ![apc].type = "FPAREN_CLOSE",
                       ![apc].parent_type = pt],
             LAMBDA c : fix_fcn_def_params(c, apo)),
             LAMBDA c : After(c, aft, pt)),
             LAMBDA c : FcnTypeOpen(c, pc, pc, varcnk, ptp))
       Scan(varcnk, apo, apc, aft, pt, sc) ==
          IF ~sc.go
             \/ sc.star_count > 1 \/ sc.word_count > 1
             \/ sc.star_count + sc.word_count = 0
             \/ ~chunk_ends_type(cs, chunk_get_prev_nnl(cs, sc.tmp, "CNAV_ALL"))
          THEN nogo_exit
          ELSE Mark(varcnk, apo, apc, aft, pt, sc)
       Aft(varcnk, apo, apc, aft) ==
          IF chunk_is_token(cs, aft, "BRACE_OPEN")
          THEN AndThen(FcnTypeScan(cs, pc, 0, 0, NULL),
                       LAMBDA sc : Scan(varcnk, apo, apc, aft, "FUNC_DEF", sc))
          ELSE IF chunk_is_token(cs, aft, "SEMICOLON")
                  \/ chunk_is_token(cs, aft, "ASSIGN")
          THEN AndThen(FcnTypeScan(cs, pc, 0, 0, NULL),
                       LAMBDA sc : Scan(varcnk, apo, apc, aft, "FUNC_PROTO",
                                        sc))
          ELSE nogo_exit
       Args(varcnk, apo, apc) ==
          IF ~chunk_is_paren_open(cs, apo) \/ apc = NULL THEN nogo_exit
          ELSE Aft(varcnk, apo, apc, chunk_get_next_nnl(cs, apc, "CNAV_ALL"))
       Open(varcnk, apo) ==
          Args(varcnk, apo, chunk_skip_to_match(cs, apo, "CNAV_ALL"))
       Name(varcnk) ==
          IF ~chunk_is_word(cs, varcnk) THEN nogo_exit
          ELSE Open(varcnk, chunk_get_next_nnl(cs, pc, "CNAV_ALL"))
   IN  Name(chunk_get_prev_nnl(cs, pc, "CNAV_ALL"))

(* fix_typedef of a function type: last_op is the open paren of the
   parameters, and a close paren in front of it ends the parenthesised name *)
TypedefFunction(cs, last_op) ==
   LET Name(cs2, the_type) == SetParent(cs2, the_type, "TYPEDEF")
       Type(cs1, the_type) ==
          IF chunk_is_paren_close(cs1, the_type)
          THEN AndThen(mark_function_type(cs1, the_type),
                       LAMBDA c : Name(c, chunk_get_prev_nnl(cs1, the_type,
                                                             "CNAV_PREPROC")))
          ELSE Name(SetType(cs1, the_type, "FUNC_TYPE"), the_type)
       Params(cs1) ==
          Type(cs1, chunk_get_prev_nnl(cs1, last_op, "CNAV_PREPROC"))
   IN  AndThen(AndThen(flag_parens(cs, last_op, {}, "FPAREN_OPEN", "TYPEDEF",
                                   FALSE),
                       LAMBDA c : fix_fcn_def_params(c, last_op)),
               Params)

(* fix_typedef of "typedef struct/union/enum [tag] [body] alias": tag is
   the kind of the keyword next *)
TypedefTagged(cs, next, the_type) ==
   LET Alias(cs1) ==
          AddFlags(SetParent(cs1, the_type, "TYPEDEF"), the_type,
                   {IF cs[next].type = "STRUCT" THEN "TYPEDEF_STRUCT"
                    ELSE IF cs[next].type = "UNION" THEN "TYPEDEF_UNION"
                    ELSE "TYPEDEF_ENUM"})
       Body(open) ==
          IF At(cs, open).type = "BRACE_OPEN"
          THEN Alias(SetParent(SetParent(cs, open, cs[next].type),
                               chunk_get_next_type(cs, open, "BRACE_CLOSE",
                                                   cs[open].level,
                                                   "CNAV_PREPROC"),
                               cs[next].type))
          ELSE Alias(cs)
       Tag(next2) ==
          Body(IF At(cs, next2).type = "TYPE"
               THEN chunk_get_next_nnl(cs, next2, "CNAV_PREPROC") ELSE next2)
   IN  Tag(chunk_get_next_nnl(cs, next, "CNAV_PREPROC"))

(* fix_typedef *)
fix_typedef(cs, start) ==
   LET Simple(sc, next) ==
          IF At(sc.cs, next).type \notin {"ENUM", "STRUCT", "UNION"}
          THEN SetParent(sc.cs, sc.the_type, "TYPEDEF")
          ELSE TypedefTagged(sc.cs, next, sc.the_type)
       Fix(sc) ==
          IF sc.last_op # NULL THEN TypedefFunction(sc.cs, sc.last_op)
          ELSE Simple(sc, chunk_get_next_nnl(sc.cs, start, "CNAV_PREPROC"))
   IN  AndThen(TypedefScan(cs, start, start, NULL, NULL), Fix)

(* mark_cpp_constructor, the scan from the open paren to the brace or the
   semicolon.  Constructor initialiser lists (":") are not among the
   inputs of the model. *)
RECURSIVE CtorScan(_, _)
CtorScan(cs, tmp) ==
   IF tmp # NULL /\ cs[tmp].type # "BRACE_OPEN" /\ ~chunk_is_semicolon(cs, tmp)
   THEN CtorScan(AddFlags(cs, tmp, {"IN_CONST_ARGS"}),
                 chunk_get_next_nnl(cs, tmp, "CNAV_ALL"))
   ELSE [cs |-> cs, tmp |-> tmp]

mark_cpp_constructor(cs, pc) ==
   LET End(r) ==
          IF r.tmp # NULL /\ r.cs[r.tmp].type = "BRACE_OPEN"
          THEN AddFlags(set_paren_parent(r.cs, r.tmp, "FUNC_CLASS"),
                        pc, {"DEF"})
          ELSE AddFlags(r.cs, pc, {"PROTO"})
       Params(cs0, paren_open) ==
          IF ~chunk_is_str(cs0, paren_open, "(") THEN cs0
          ELSE End(CtorScan(flag_parens(fix_fcn_def_params(cs0, paren_open),
                                        paren_open, {"IN_FCN_CALL"},
                                        "FPAREN_OPEN", "FUNC_CLASS", FALSE),
                            paren_open))
       Dtor(tmp) ==
          Params(IF At(cs, tmp).type = "INV"
                 THEN SetParent(SetType(cs, tmp, "DESTRUCTOR"), pc,
                                "DESTRUCTOR")
                 ELSE cs,
                 skip_template_next(cs, chunk_get_next_nnl(cs, pc,
                                                           "CNAV_ALL")))
   IN  Dtor(chunk_get_prev_nnl(cs, pc, "CNAV_ALL"))

(* chunkstack_match for the one-entry stack mark_class_ctor pushes *)
chunkstack_match(cs, pclass, pc) == cs[pc].str = cs[pclass].str

(* mark_class_ctor, the walk to the last name of the class head *)
RECURSIVE ClassNameWalk(_, _, _)
ClassNameWalk(cs, pclass, next) ==
   IF next # NULL /\ cs[next].type \in {"TYPE", "WORD", "DC_MEMBER"}
   THEN ClassNameWalk(cs, next, chunk_get_next_nnl(cs, next, "CNAV_PREPROC"))
   ELSE pclass

(* mark_class_ctor, the search for the open brace: the list, the chunk
   reached and whether the search ended at a semicolon *)
RECURSIVE ClassFindBrace(_, _, _, _)
ClassFindBrace(cs, pclass, pc, flags) ==
   IF pc = NULL \/ cs[pc].type = "BRACE_OPEN"
   THEN [cs |-> cs, pc |-> pc, proto |-> FALSE]
   ELSE IF chunk_is_semicolon(cs, pc)
   THEN [cs |-> AddFlags(cs, pclass, {"PROTO"}), pc |-> pc, proto |-> TRUE]
   ELSE IF chunk_is_str(cs, pc, ":")
   THEN ClassFindBrace(AddFlags(SetType(cs, pc, "CLASS_COLON"), pc,
                                flags \cup {"IN_CLASS_BASE"}),
                       pclass, chunk_get_next_nnl(cs, pc, "CNAV_PREPROC"),
                       flags \cup {"IN_CLASS_BASE"})
   ELSE ClassFindBrace(AddFlags(cs, pc, flags), pclass,
                       chunk_get_next_nnl(cs, pc, "CNAV_PREPROC"), flags)

(* mark_class_ctor, the walk over the class body *)
RECURSIVE ClassBody(_, _, _, _, _)
ClassBody(cs, start, pclass, level, pc) ==
   LET Semi(cs1, semi) ==
          IF semi # NULL /\ cs1[semi].type = "SEMICOLON"
          THEN SetParent(cs1, semi, cs1[start].type)
          ELSE cs1
       Member(cs1, next) ==
          ClassBody(IF chunkstack_match(cs1, pclass, pc)
                    THEN IF next # NULL /\ cs1[next].str = "("
                         THEN mark_cpp_constructor(
                                 SetType(cs1, pc, "FUNC_CLASS"), pc)
                         ELSE make_type(cs1, pc)
                    ELSE cs1,
                    start, pclass, level, next)
       Body(cs1) ==
          IF cs1[pc].brace_level > level \/ HasFlag(cs1[pc], "IN_PREPROC")
          THEN ClassBody(cs1, start, pclass, level,
                         chunk_get_next_nnl(cs1, pc, "CNAV_ALL"))
          ELSE IF cs1[pc].type = "BRACE_CLOSE" /\ cs1[pc].brace_level < level
          THEN Semi(cs1, chunk_get_next_nnl(cs1, pc, "CNAV_PREPROC"))
          ELSE Member(cs1, chunk_get_next_nnl(cs1, pc, "CNAV_PREPROC"))
   IN  IF pc = NULL THEN cs ELSE Body(AddFlags(cs, pc, {"IN_CLASS"}))

mark_class_ctor(cs, start) ==
   LET Found(r, pclass) ==
          IF r.proto \/ r.pc = NULL THEN r.cs
          ELSE ClassBody(set_paren_parent(AddFlags(r.cs, pclass, {"DEF"}),
                                          r.pc, cs[start].type),
                         start, pclass, cs[pclass].brace_level + 1,
                         chunk_get_next_nnl(cs, r.pc, "CNAV_PREPROC"))
       Open(pclass, pc) ==
          IF pc = NULL THEN cs
          ELSE Found(ClassFindBrace(cs, pclass, pc, {}), pclass)
       Name(pclass) == Open(pclass, chunk_get_next_nnl(cs, pclass,
                                                       "CNAV_PREPROC"))
       First(pclass0) ==
          IF pclass0 = NULL \/ cs[pclass0].type \notin {"TYPE", "WORD"}
          THEN cs
          ELSE Name(ClassNameWalk(cs, pclass0,
                       chunk_get_next_nnl(cs, pclass0, "CNAV_PREPROC")))
   IN  First(chunk_get_next_nnl(cs, start, "CNAV_PREPROC"))

(* can_be_full_param: could the chunks from start up to end be one
   parameter of a prototype.  A parenthesis or a square bracket inside a
   parameter is not among the inputs of the model, so the branches for
   them fall to the final "no way". *)
CanBeFullParamEnd(cs, pc, word_cnt, type_count) ==
   LET last == chunk_get_prev_nnl(cs, pc, "CNAV_ALL")
   IN  chunk_is_star(cs, last) \/ chunk_is_addr(cs, last)
       \/ word_cnt >= 2 \/ (word_cnt = 1 /\ type_count = 1)

RECURSIVE CanBeFullParamFrom(_, _, _, _, _, _)
CanBeFullParamFrom(cs, start, end, pc, word_cnt, type_count) ==
   IF pc = end \/ pc = NULL
   THEN CanBeFullParamEnd(cs, pc, word_cnt, type_count)
   ELSE LET t  == cs[pc].type
            nx == chunk_get_next_nnl(cs, pc, "CNAV_PREPROC")
        IN  IF t \in {"QUALIFIER", "STRUCT", "ENUM", "UNION", "TYPENAME"}
            THEN TRUE
            ELSE IF t \in {"WORD", "TYPE"}
            THEN CanBeFullParamFrom(cs, start, end, nx, word_cnt + 1,
                    IF t = "TYPE" THEN type_count + 1 ELSE type_count)
            ELSE IF t \in {"MEMBER", "DC_MEMBER"}
            THEN CanBeFullParamFrom(cs, start, end, nx,
                    IF word_cnt > 0 THEN word_cnt - 1 ELSE word_cnt,
                    type_count)
            ELSE IF pc # start
                    /\ (chunk_is_star(cs, pc) \/ chunk_is_addr(cs, pc))
            THEN CanBeFullParamFrom(cs, start, end, nx, word_cnt, type_count)
            ELSE IF t = "ASSIGN"
            THEN CanBeFullParamEnd(cs, pc, word_cnt, type_count)
            ELSE IF t \in {"ANGLE_OPEN", "ELLIPSIS"} THEN TRUE
            ELSE IF t = "TSQUARE"
            THEN CanBeFullParamFrom(cs, start, end, nx, word_cnt, type_count)
            ELSE FALSE

can_be_full_param(cs, start, end) ==
   CanBeFullParamFrom(cs, start, end, start, 0, 0)

(* mark_function, the backward scan that decides call or def/proto: the
   verdict isa_def and the chunk the scan stopped at *)
RECURSIVE FcnDefScan(_, _, _, _)
FcnDefScan(cs, prev, isa_def, hit_star) ==
   IF prev = NULL THEN [isa_def |-> isa_def, prev |-> prev]
   ELSE
   LET t    == cs[prev].type
       back == chunk_get_prev_nnlnp(cs, prev)
       ptr  == chunk_is_addr(cs, prev) \/ chunk_is_star(cs, prev)
   IN  IF HasFlag(cs[prev], "IN_PREPROC")
       THEN FcnDefScan(cs, back, isa_def, hit_star)
       ELSE IF t = "FPAREN_CLOSE" /\ cs[prev].parent_type = "ATTRIBUTE"
       THEN FcnDefScan(cs, skip_attribute_prev(cs, prev), isa_def, hit_star)
       ELSE IF t = "PAREN_CLOSE" /\ cs[prev].parent_type = "D_CAST"
       THEN [isa_def |-> TRUE, prev |-> prev]
       ELSE IF t \in {"DC_MEMBER", "MEMBER"}
       THEN IF back = NULL \/ cs[back].type \notin {"WORD", "TYPE", "THIS"}
            THEN [isa_def |-> FALSE, prev |-> back]
            ELSE FcnDefScan(cs, chunk_get_prev_nnlnp(cs, back), isa_def,
                            hit_star)
       ELSE IF t \in {"TYPE", "WORD"} /\ ~hit_star
       THEN [isa_def |-> TRUE, prev |-> prev]
       ELSE
       LET isa1 == IF t \in {"TYPE", "WORD"} THEN TRUE ELSE isa_def
       IN  IF t \notin {"OPERATOR", "TSQUARE", "ANGLE_CLOSE", "QUALIFIER",
                        "TYPE", "WORD"} /\ ~ptr
           THEN [isa_def |-> IF t \in {"ARITH", "ASSIGN", "COMMA", "STRING",
                                       "STRING_MULTI", "NUMBER", "NUMBER_FP"}
                             THEN FALSE ELSE isa1,
                 prev |-> prev]
           ELSE FcnDefScan(cs,
                           IF t = "ANGLE_CLOSE"
                           THEN skip_template_prev(cs, prev) ELSE back,
                           isa1, hit_star \/ ptr)

(* mark_function, make_type over the chunks from tmp up to pc *)
RECURSIVE MakeTypeRange(_, _, _)
MakeTypeRange(cs, tmp, pc) ==
   IF tmp = pc \/ tmp = NULL THEN cs
   ELSE MakeTypeRange(make_type(cs, tmp),
                      chunk_get_next_nnl(cs, tmp, "CNAV_ALL"), pc)

(* mark_function, the forward scan after the close paren that tells a
   prototype from a definition: the kind pc gets and the semicolon found *)
RECURSIVE FcnProtoScan(_, _, _)
FcnProtoScan(cs, pc, tmp) ==
   IF tmp = NULL THEN [type |-> cs[pc].type, semi |-> NULL]
   ELSE IF cs[tmp].level < cs[pc].level
   THEN [type |-> "FUNC_PROTO", semi |-> NULL]
   ELSE IF cs[tmp].level = cs[pc].level /\ cs[tmp].type = "BRACE_OPEN"
   THEN [type |-> cs[pc].type, semi |-> NULL]
   ELSE IF cs[tmp].level = cs[pc].level /\ chunk_is_semicolon(cs, tmp)
   THEN [type |-> "FUNC_PROTO", semi |-> tmp]
   ELSE IF cs[tmp].level = cs[pc].level /\ cs[pc].type = "COMMA"
   THEN [type |-> "FUNC_CTOR_VAR", semi |-> NULL]
   ELSE FcnProtoScan(cs, pc, chunk_get_next_nnl(cs, tmp, "CNAV_ALL"))

(* mark_function, the scan of the parameter list of a C++ prototype *)
RECURSIVE FcnParamScan(_, _, _, _, _)
FcnParamScan(cs, paren_open, paren_close, ref, tmp) ==
   IF tmp = paren_close \/ tmp = NULL
   THEN ~(ref # tmp) \/ can_be_full_param(cs, ref, tmp)
   ELSE LET tmp2 == chunk_get_next_nnl(cs, tmp, "CNAV_ALL")
        IN  IF cs[tmp].type = "COMMA"
               /\ cs[tmp].level = cs[paren_open].level + 1
            THEN IF ~can_be_full_param(cs, ref, tmp) THEN FALSE
                 ELSE FcnParamScan(cs, paren_open, paren_close, tmp2, tmp2)
            ELSE FcnParamScan(cs, paren_open, paren_close, ref, tmp2)

(* mark_function, the C++ check whether a prototype is really a variable
   constructed with arguments: the kind pc gets *)
FcnCtorVarKind(cs, pc, paren_open, paren_close) ==
   IF ~FcnParamScan(cs, paren_open, paren_close,
                    chunk_get_next_nnl(cs, paren_open, "CNAV_ALL"),
                    chunk_get_next_nnl(cs, paren_open, "CNAV_ALL"))
   THEN "FUNC_CTOR_VAR"
   ELSE IF cs[pc].brace_level > 0
   THEN LET br_open == chunk_get_prev_type(cs, pc, "BRACE_OPEN",
                                           cs[pc].brace_level - 1, "CNAV_ALL")
            prev    == chunk_get_prev_nnl(cs, pc, "CNAV_ALL")
        IN  IF br_open # NULL
               /\ cs[br_open].parent_type \notin {"EXTERN", "NAMESPACE"}
               /\ ~chunk_is_str(cs, prev, "*") /\ ~chunk_is_str(cs, prev, "&")
               /\ cs[br_open].parent_type \notin {"CLASS", "STRUCT",
                                                  "NAMESPACE"}
            THEN "FUNC_CTOR_VAR"
            ELSE cs[pc].type
   ELSE cs[pc].type

(* mark_function from the forward scan on: pc is a FUNC_DEF so far *)
MarkFunctionProto(cs, pc, next, paren_open, paren_close, L) ==
   LET Body(cs6, tmp) ==
          IF cs6[pc].type = "FUNC_DEF" /\ tmp # NULL
             /\ cs6[tmp].type = "BRACE_OPEN"
          THEN SetParent(SetParent(cs6, tmp, "FUNC_DEF"),
                         chunk_skip_to_match(cs6, tmp, "CNAV_ALL"),
                         "FUNC_DEF")
          ELSE cs6
       Ret(cs5) ==
          Body(mark_function_return_type(cs5, pc,
                  chunk_get_prev_nnl(cs5, pc, "CNAV_ALL"), cs5[pc].type),
               chunk_get_next_nnl(cs, paren_close, "CNAV_PREPROC"))
       Params(cs4) ==
          IF cs4[pc].type = "FUNC_CTOR_VAR"
          THEN AddFlags(cs4, pc, {"VAR_DEF"})
          ELSE Ret(fix_fcn_def_params(cs4,
                      IF At(cs4, next).type = "TSQUARE"
                      THEN chunk_get_next_nnl(cs4, next, "CNAV_ALL")
                      ELSE next))
       Parens(cs3) ==
          Params(flag_parens(cs3, paren_open, {"IN_FCN_DEF"}, "FPAREN_OPEN",
                             cs3[pc].type, FALSE))
       Semi(cs2, semi) ==
          Parens(IF semi # NULL THEN SetParent(cs2, semi, cs2[pc].type)
                 ELSE cs2)
       Ctor(cs1, semi) ==
          Semi(IF "CPP" \in L /\ cs1[pc].type = "FUNC_PROTO"
                  /\ cs1[pc].parent_type # "OPERATOR"
               THEN SetType(cs1, pc,
                            FcnCtorVarKind(cs1, pc, paren_open, paren_close))
               ELSE cs1,
               semi)
       Scan(r) == Ctor(SetType(cs, pc, r.type), r.semi)
   IN  Scan(FcnProtoScan(cs, pc, chunk_get_next_nnl(cs, paren_close,
                                                    "CNAV_ALL")))

(* mark_function from the call-or-definition decision on *)
MarkFunctionDef(cs, pc, prev, next, paren_open, paren_close, L) ==
   LET Call(cs2, tmp) ==
          IF tmp # NULL /\ cs2[tmp].type = "BRACE_OPEN"
          THEN set_paren_parent(cs2, tmp, cs2[pc].type)
          ELSE cs2
       Decide(cs1) ==
          IF cs1[pc].type # "FUNC_DEF"
          THEN Call(flag_parens(cs1, next, {"IN_FCN_CALL"}, "FPAREN_OPEN",
                                "FUNC_CALL", FALSE),
                    FlagParensNext(cs1, next))
          ELSE MarkFunctionProto(cs1, pc, next, paren_open, paren_close, L)
       Scan(r) ==
          Decide(IF cs[pc].type = "FUNC_CALL"
                    /\ (cs[pc].level = cs[pc].brace_level
                        \/ cs[pc].level = 1)
                    /\ ~HasFlag(cs[pc], "IN_ARRAY_ASSIGN")
                    /\ r.isa_def
                    /\ ~(r.prev # NULL
                         /\ ((chunk_is_paren_close(cs, r.prev)
                              /\ cs[r.prev].parent_type # "D_CAST")
                             \/ cs[r.prev].type \in {"ASSIGN", "RETURN"}))
                 THEN MakeTypeRange(SetType(cs, pc, "FUNC_DEF"),
                                    IF r.prev = NULL THEN 1 ELSE r.prev, pc)
                 ELSE cs)
   IN  Scan(FcnDefScan(cs, prev, FALSE, FALSE))

(* mark_function, "check for C++ function def": the list, the chunk the
   backward scan starts at, and whether pc is a constructor or destructor
   named after its class *)
FcnClassMember(cs, pc, prev) ==
   LET Sel(cs2, prev1, prev2) ==
          IF At(cs2, prev1).type # "DC_MEMBER"
          THEN [cs |-> cs2, prev |-> prev1, ctor |-> FALSE]
          ELSE IF At(cs2, prev2).type \notin {"WORD", "TYPE"}
          THEN [cs |-> cs2, prev |-> prev2, ctor |-> FALSE]
          ELSE IF cs2[pc].str = cs2[prev2].str
          THEN [cs |-> SetType(cs2, pc, "FUNC_CLASS"), prev |-> prev2,
                ctor |-> TRUE]
          ELSE [cs |-> cs2, prev |-> chunk_get_prev_nnlnp(cs2, prev2),
                ctor |-> FALSE]
       Qual(cs2, prev1) ==
          Sel(cs2, prev1,
              skip_attribute_prev(cs2, skip_template_prev(cs2,
                 chunk_get_prev_nnlnp(cs2, prev1))))
   IN  IF At(cs, prev).type = "INV"
       THEN Qual(SetParent(SetType(SetType(cs, prev, "DESTRUCTOR"), pc,
                                   "FUNC_CLASS"),
                           pc, "DESTRUCTOR"),
                 chunk_get_prev_nnlnp(cs, prev))
       ELSE Qual(cs, prev)

(* mark_function.  Two parts of the code cannot run on the inputs of the
   model and are left out: the part for a chunk whose parent is OPERATOR,
   and the part for a close paren directly followed by an open paren
   (chained calls, function pointer definitions). *)
mark_function(cs, pc, L) ==
   LET Fin(sel, next, paren_open, paren_close) ==
          IF sel.ctor THEN mark_cpp_constructor(sel.cs, pc)
          ELSE MarkFunctionDef(sel.cs, pc, sel.prev, next, paren_open,
                               paren_close, L)
       Member(cs1, prev) ==
          IF cs1[pc].type = "FUNC_CLASS"
             \/ At(cs1, prev).type \in {"DC_MEMBER", "INV"}
          THEN FcnClassMember(cs1, pc, prev)
          ELSE [cs |-> cs1, prev |-> prev, ctor |-> FALSE]
       Parens(next, paren_open, paren_close) ==
          IF paren_open = NULL \/ paren_close = NULL THEN cs
          ELSE Fin(Member(IF cs[pc].type = "FUNCTION"
                          THEN SetType(cs, pc,
                                  IF cs[pc].parent_type = "OPERATOR"
                                  THEN "FUNC_DEF" ELSE "FUNC_CALL")
                          ELSE cs,
                          chunk_get_prev_nnlnp(cs, pc)),
                   next, paren_open, paren_close)
       Open(next, paren_open) ==
          Parens(next, paren_open,
                 chunk_get_next_str(cs, paren_open, ")", cs[pc].level,
                                    "CNAV_ALL"))
       Star(next1) ==
          IF HasFlag(cs[pc], "IN_CONST_ARGS")
          THEN flag_parens(SetType(cs, pc, "FUNC_CTOR_VAR"),
                           skip_template_next(cs, next1), {}, "FPAREN_OPEN",
                           "FUNC_CTOR_VAR", TRUE)
          ELSE Open(skip_attribute_next(cs, skip_template_next(cs, next1)),
                    chunk_get_next_str(cs, pc, "(", cs[pc].level,
                                       "CNAV_ALL"))
       First(next0) ==
          Star(IF chunk_is_star(cs, next0) \/ chunk_is_addr(cs, next0)
               THEN chunk_get_next_nnlnp(cs, next0) ELSE next0)
   IN  First(chunk_get_next_nnlnp(cs, pc))

(* mark_lvalue: the chunks before an assign, back to a limiter *)
RECURSIVE MarkLvalueFrom(_, _, _)
MarkLvalueFrom(cs, pc, prev) ==
   IF prev = NULL THEN cs
   ELSE IF cs[prev].level < cs[pc].level
           \/ cs[prev].type \in {"ASSIGN", "COMMA", "BOOL"}
           \/ chunk_is_semicolon(cs, prev)
           \/ cs[prev].str \in {"(", "{", "["}
           \/ HasFlag(cs[prev], "IN_PREPROC")
   THEN cs
   ELSE MarkLvalueFrom(IF cs[prev].level = cs[pc].level
                          /\ cs[prev].str = "&"
                       THEN make_type(AddFlags(cs, prev, {"LVALUE"}), prev)
                       ELSE AddFlags(cs, prev, {"LVALUE"}),
                       pc, chunk_get_prev_nnl(cs, prev, "CNAV_ALL"))

mark_lvalue(cs, pc) ==
   IF HasFlag(cs[pc], "IN_PREPROC") THEN cs
   ELSE MarkLvalueFrom(cs, pc, chunk_get_prev_nnl(cs, pc, "CNAV_ALL"))

(* mark_define_expressions: EXPR_START inside the body of a #define *)
RECURSIVE DefineExprFrom(_, _, _, _, _)
DefineExprFrom(cs, pc, prev, in_define, first) ==
   IF pc = NULL THEN cs
   ELSE
   LET nx == chunk_get_next(cs, pc, "CNAV_ALL")
   IN  IF ~in_define
       THEN IF cs[pc].type \in {"PP_DEFINE", "PP_IF", "PP_ELSE"}
            THEN DefineExprFrom(cs, nx, pc, TRUE, TRUE)
            ELSE DefineExprFrom(cs, nx, pc, FALSE, first)
       ELSE IF ~HasFlag(cs[pc], "IN_PREPROC") \/ cs[pc].type = "PREPROC"
       THEN DefineExprFrom(cs, nx, pc, FALSE, first)
       ELSE IF cs[pc].type # "MACRO"
               /\ (first
                   \/ cs[prev].type \in {"PAREN_OPEN", "ARITH", "CARET",
                         "ASSIGN", "COMPARE", "RETURN", "GOTO", "CONTINUE",
                         "FPAREN_OPEN", "SPAREN_OPEN", "BRACE_OPEN", "COMMA",
                         "COLON", "QUESTION"}
                   \/ chunk_is_semicolon(cs, prev))
       THEN DefineExprFrom(AddFlags(cs, pc, {"EXPR_START"}), nx, pc, TRUE,
                           FALSE)
       ELSE DefineExprFrom(cs, nx, pc, TRUE, first)

mark_define_expressions(cs) ==
   IF Len(cs) = 0 THEN cs ELSE DefineExprFrom(cs, 1, 1, FALSE, TRUE)

(* the first loop of fix_symbols, after mark_define_expressions: every
   assign marks its lvalue.  FUNC_WRAP and TYPE_WRAP are kinds for
   user-configured wrapper macros, which the lexer above never emits. *)
RECURSIVE LvalueLoop(_, _)
LvalueLoop(cs, pc) ==
   IF pc = NULL THEN cs
   ELSE LvalueLoop(IF cs[pc].type = "ASSIGN" THEN mark_lvalue(cs, pc) ELSE cs,
                   chunk_get_next_nnl(cs, pc, "CNAV_ALL"))

(* do_symbol_check, "a word before an open paren": the kind pc gets *)
FunctionKind(cs, pc, next) ==
   IF cs[pc].type \in {"WORD", "OPERATOR_VAL"} THEN "FUNCTION"
   ELSE IF cs[pc].type = "TYPE"
   THEN LET tmp == chunk_get_next(cs,
                      chunk_get_next_type(cs, next, "PAREN_CLOSE",
                                          cs[next].level, "CNAV_ALL"),
                      "CNAV_ALL")
        IN  IF tmp # NULL /\ cs[tmp].type = "PAREN_OPEN" THEN "FUNCTION"
            ELSE IF cs[pc].parent_type = "NONE"
                    /\ ~HasFlag(cs[pc], "IN_TYPEDEF")
            THEN IF chunk_is_token(cs, chunk_get_next_nnl(cs, next,
                                                          "CNAV_ALL"),
                                   "PAREN_CLOSE")
                 THEN "FUNCTION" ELSE "CPP_CAST"
            ELSE cs[pc].type
   ELSE cs[pc].type

(* do_symbol_check, "mark function parens and braces" *)
MarkFcnParens(cs, pc, next) ==
   LET After(cs1, aft) ==
          IF aft = NULL THEN cs1
          ELSE IF cs1[aft].type = "BRACE_OPEN"
          THEN (IF ~HasFlag(cs1[pc], "IN_CONST_ARGS")
                THEN set_paren_parent(cs1, aft, cs1[pc].type) ELSE cs1)
          ELSE IF chunk_is_semicolon(cs1, aft) /\ cs1[pc].type = "FUNC_PROTO"
          THEN SetParent(cs1, aft, cs1[pc].type)
          ELSE cs1
       Open(tmp) ==
          IF ~chunk_is_paren_open(cs, tmp) THEN cs
          ELSE After(flag_parens(cs, tmp, {}, "FPAREN_OPEN", cs[pc].type,
                                 FALSE),
                     FlagParensNext(cs, tmp))
   IN  Open(IF At(cs, next).type = "TSQUARE"
               \/ At(cs, next).parent_type = "OPERATOR"
            THEN chunk_get_next_nnl(cs, next, "CNAV_ALL") ELSE next)

(* do_symbol_check, "a variable definition that starts with
   struct/enum/union/class" *)
MarkTaggedVarDef(cs, pc, next) ==
   LET Var(cs1, tmp2) ==
          IF tmp2 # NULL
             /\ (chunk_is_star(cs1, tmp2) \/ chunk_is_addr(cs1, tmp2)
                 \/ cs1[tmp2].type = "WORD")
          THEN mark_variable_definition(cs1, tmp2, {"VAR_DEF"})
          ELSE cs1
       Brace(cs1, tmp1) ==
          Var(cs1, IF tmp1 # NULL /\ cs1[tmp1].type = "BRACE_OPEN"
                   THEN chunk_get_next_nnl(cs1,
                           chunk_skip_to_match(cs1, tmp1, "CNAV_ALL"),
                           "CNAV_ALL")
                   ELSE tmp1)
       Tag(tmp0) ==
          IF tmp0 # NULL /\ cs[tmp0].type \in {"TYPE", "WORD"}
          THEN Brace(SetType(SetParent(cs, tmp0, cs[pc].type), tmp0, "TYPE"),
                     chunk_get_next_nnl(cs, tmp0, "CNAV_ALL"))
          ELSE Brace(cs, tmp0)
   IN  Tag(skip_dc_member(cs, next))

(* chunk_add_after: the list with the chunk nc placed after the chunk ref;
   the chunks behind ref move one place *)
chunk_add_after(cs, nc, ref) ==
   SubSeq(cs, 1, ref) \o <<nc>> \o SubSeq(cs, ref + 1, Len(cs))

(* handle_cpp_lambda, the return type: the chunks between "->" and the
   open brace *)
RECURSIVE LambdaRetTypes(_, _, _)
LambdaRetTypes(cs, ret, br_o) ==
   IF ret = NULL \/ ret = br_o THEN cs
   ELSE LambdaRetTypes(make_type(cs, ret),
                       chunk_get_next_nnl(cs, ret, "CNAV_ALL"), br_o)

(* handle_cpp_lambda: sq_o is SQUARE_OPEN or the TSQUARE "[]", which is
   split into two chunks.  m holds the chunks the code has found: sq_c,
   pa_o, pa_c, br_o, br_c and ret (NULL without "->"). *)
handle_cpp_lambda(cs, sq_o) ==
   LET Ret(cs1, m) ==
          IF m.ret = NULL THEN cs1
          ELSE LambdaRetTypes(SetType(cs1, m.ret, "CPP_LAMBDA_RET"),
                              chunk_get_next_nnl(cs1, m.ret, "CNAV_ALL"),
                              m.br_o)
       Mark(cs1, m) ==
          AndThen(AndThen(
             [cs1 EXCEPT ![sq_o].parent_type = "CPP_LAMBDA",
                         ![m.sq_c].parent_type = "CPP_LAMBDA",
                         ![m.pa_o].type = "FPAREN_OPEN",
                         ![m.pa_o].parent_type = "CPP_LAMBDA",
                         ![m.pa_c].type = "FPAREN_CLOSE",
                         ![m.pa_c].parent_type = "CPP_LAMBDA",
                         ![m.br_o].parent_type = "CPP_LAMBDA",
                         ![m.br_c].parent_type = "CPP_LAMBDA"],
             LAMBDA c : Ret(c, m)),
             LAMBDA c : fix_fcn_def_params(c, m.pa_o))
       Moved(i) == IF i = NULL THEN NULL ELSE i + 1
       Split(m) ==
          IF cs[sq_o].type = "TSQUARE"
          THEN AndThen(
                  chunk_add_after(
                     [cs EXCEPT ![sq_o].type = "SQUARE_OPEN",
                                ![sq_o].str = "["],
                     [cs[sq_o] EXCEPT !.type = "SQUARE_CLOSE",
                                      !.str = "]",
                                      !.orig_col = @ + 1],
                     sq_o),
                  LAMBDA c :
                     Mark(c, [sq_c |-> sq_o + 1, pa_o |-> Moved(m.pa_o),
                              pa_c |-> Moved(m.pa_c), br_o |-> Moved(m.br_o),
                              br_c |-> Moved(m.br_c), ret |-> Moved(m.ret)]))
          ELSE Mark(cs, m)
       BraceC(sq_c, pa_o, pa_c, ret, br_o, br_c) ==
          IF br_c = NULL THEN cs
          ELSE AndThen([sq_c |-> sq_c, pa_o |-> pa_o, pa_c |-> pa_c,
                        br_o |-> br_o, br_c |-> br_c, ret |-> ret],
                       Split)
       BraceO(sq_c, pa_o, pa_c, ret, br_o) ==
          IF br_o = NULL \/ cs[br_o].type # "BRACE_OPEN" THEN cs
          ELSE BraceC(sq_c, pa_o, pa_c, ret, br_o,
                      chunk_skip_to_match(cs, br_o, "CNAV_ALL"))
       Arrow(sq_c, pa_o, pa_c, b) ==
          IF chunk_is_str(cs, b, "->")
          THEN BraceO(sq_c, pa_o, pa_c, b,
                      chunk_get_next_type(cs, b, "BRACE_OPEN", cs[b].level,
                                          "CNAV_ALL"))
          ELSE BraceO(sq_c, pa_o, pa_c, NULL, b)
       Mutable(sq_c, pa_o, pa_c, b) ==
          Arrow(sq_c, pa_o, pa_c,
                IF chunk_is_str(cs, b, "mutable")
                THEN chunk_get_next_nnl(cs, b, "CNAV_ALL") ELSE b)
       ParenC(sq_c, pa_o, pa_c) ==
          IF pa_c = NULL THEN cs
          ELSE Mutable(sq_c, pa_o, pa_c,
                       chunk_get_next_nnl(cs, pa_c, "CNAV_ALL"))
       ParenO(sq_c, pa_o) ==
          IF pa_o = NULL \/ cs[pa_o].type # "PAREN_OPEN" THEN cs
          ELSE ParenC(sq_c, pa_o, chunk_skip_to_match(cs, pa_o, "CNAV_ALL"))
       SquareC(sq_c) ==
          IF sq_c = NULL THEN cs
          ELSE ParenO(sq_c, chunk_get_next_nnl(cs, sq_c, "CNAV_ALL"))
   IN  SquareC(IF cs[sq_o].type = "SQUARE_OPEN"
               THEN chunk_skip_to_match(cs, sq_o, "CNAV_ALL") ELSE sq_o)

(***************************************************************************)
(* fix_casts: is the paren pair that opens at start a C cast?              *)
(***************************************************************************)
Lower == {"a", "b", "c", "d", "e", "f", "g", "h", "i", "j", "k", "l", "m",
          "n", "o", "p", "q", "r", "s", "t", "u", "v", "w", "x", "y", "z"}
Upper == {"A", "B", "C", "D", "E", "F", "G", "H", "I", "J", "K", "L", "M",
          "N", "O", "P", "Q", "R", "S", "T", "U", "V", "W", "X", "Y", "Z"}
toupper(ch) ==
   IF ch \in Lower
   THEN CHOOSE u \in Upper :
           \E k \in 1..26 :
              /\ <<"a", "b", "c", "d", "e", "f", "g", "h", "i", "j", "k", "l",
                   "m", "n", "o", "p", "q", "r", "s", "t", "u", "v", "w", "x",
                   "y", "z">>[k] = ch
              /\ <<"A", "B", "C", "D", "E", "F", "G", "H", "I", "J", "K", "L",
                   "M", "N", "O", "P", "Q", "R", "S", "T", "U", "V", "W", "X",
                   "Y", "Z">>[k] = u
   ELSE ch

(* the text of a word, byte by byte *)
Spell(str) ==
   CASE str = "foo"    -> <<"f", "o", "o">>
     [] str = "Foo"    -> <<"F", "o", "o">>
     [] str = "foo_t"  -> <<"f", "o", "o", "_", "t">>
     [] str = "a_t"    -> <<"a", "_", "t">>
     [] str = "MAX"    -> <<"M", "A", "X">>
     [] str = "static" -> <<"s", "t", "a", "t", "i", "c">>
     [] str = "extern" -> <<"e", "x", "t", "e", "r", "n">>
     [] str = "struct" -> <<"s", "t", "r", "u", "c", "t">>
     [] str = "union"  -> <<"u", "n", "i", "o", "n">>
     [] str = "enum"   -> <<"e", "n", "u", "m">>
     [] str = "::"     -> <<":", ":">>
     [] OTHER          -> <<str>>

(* Faulty variant: every word counts as written in upper case *)
is_ucase_str_any(w) == TRUE

is_ucase_str(w) == \A k \in 1..Len(w) : toupper(w[k]) = w[k]

(* the loop over the chunks inside the parens: WORD, TYPE and '*' up to
   the chunk that stops it *)
RECURSIVE CastScan(_, _, _)
CastScan(cs, pc, st) ==
   IF pc # NULL
      /\ (chunk_is_type(cs, pc)
          \/ cs[pc].type \in {"WORD", "QUALIFIER", "DC_MEMBER", "STAR", "AMP"})
   THEN CastScan(cs, chunk_get_next_nnl(cs, pc, "CNAV_ALL"),
                 [last       |-> pc,
                  count      |-> st.count + 1,
                  word_count |-> st.word_count
                                 + (IF cs[pc].type = "WORD" THEN 1
                                    ELSE IF cs[pc].type = "DC_MEMBER" THEN -1
                                    ELSE 0),
                  pc         |-> NULL])
   ELSE [st EXCEPT !.pc = pc]

CastInside(cs, start) ==
   CastScan(cs, chunk_get_next_nnl(cs, start, "CNAV_ALL"),
            [last |-> NULL, count |-> 0, word_count |-> 0, pc |-> NULL])

(* the next chunk that is not an open paren *)
RECURSIVE CastAfter(_, _)
CastAfter(cs, after) ==
   LET n == chunk_get_next_nnl(cs, after, "CNAV_ALL")
   IN  IF n # NULL /\ cs[n].type = "PAREN_OPEN" THEN CastAfter(cs, n) ELSE n

(* "(word)": the guess from the spelling of the word and from what
   follows the close paren *)
CastGuess(cs, last, paren_close) ==
   LET w        == Spell(cs[last].str)
       doubtful == ~(Len(w) > 3 /\ w[Len(w) - 1] = "_" /\ w[Len(w)] = "t")
                   /\ ~is_ucase_str(w)
       pc       == chunk_get_next_nnl(cs, paren_close, "CNAV_ALL")
       after    == CastAfter(cs, pc)
   IN  /\ after # NULL
       /\ IF chunk_is_star(cs, pc) \/ chunk_is_addr(cs, pc)
          THEN ~(cs[after].type \in {"NUMBER_FP", "NUMBER", "STRING"}
                 \/ doubtful)
          ELSE IF cs[pc].type = "MINUS"
          THEN ~(cs[after].type = "STRING" \/ doubtful)
          ELSE IF cs[pc].type = "PLUS"
          THEN ~(cs[after].type \notin {"NUMBER", "NUMBER_FP"} \/ doubtful)
          ELSE cs[pc].type \in {"NUMBER_FP", "NUMBER", "WORD", "TYPE",
                                "PAREN_OPEN", "STRING", "SIZEOF", "FUNC_CALL",
                                "FUNC_CALL_USER", "FUNCTION", "BRACE_OPEN"}

(* fix_casts gets past all of its returns.  oc is what the read of
   prev->type gives where prev is NULL. *)
CastAccepted(cs, start, oc) ==
   LET prev == chunk_get_prev_nnl(cs, start, "CNAV_ALL")
       r    == CastInside(cs, start)
       pc   == chunk_get_next_nnl(cs, r.pc, "CNAV_ALL")
   IN  /\ ~(prev # NULL /\ cs[prev].type = "PP_DEFINED")
       /\ r.pc # NULL
       /\ cs[r.pc].type = "PAREN_CLOSE"
       /\ ~(IF prev = NULL THEN oc ELSE cs[prev].type = "OC_CLASS")
       /\ r.word_count <= 1
       /\ \/ At(cs, r.last).type \in {"STAR", "PTR_TYPE", "TYPE"}
          \/ r.count # 1
          \/ CastGuess(cs, r.last, r.pc)
       /\ ~(chunk_is_semicolon(cs, pc) \/ chunk_is_token(cs, pc, "COMMA")
            \/ chunk_is_paren_close(cs, pc))

RECURSIVE CastMark(_, _, _)
CastMark(cs, pc, paren_close) ==
   IF pc = NULL \/ pc = paren_close THEN cs
   ELSE CastMark(make_type(SetParent(cs, pc, "C_CAST"), pc),
                 chunk_get_next_nnl(cs, pc, "CNAV_ALL"), paren_close)

fix_casts(cs, start, oc) ==
   IF ~CastAccepted(cs, start, oc) THEN cs
   ELSE LET paren_close == CastInside(cs, start).pc
            c1 == SetParent(SetParent(cs, start, "C_CAST"), paren_close,
                            "C_CAST")
            c2 == CastMark(c1, chunk_get_next_nnl(cs, start, "CNAV_ALL"),
                           paren_close)
            pc == chunk_get_next_nnl(cs, paren_close, "CNAV_ALL")
            c3 == AddFlags(c2, pc, {"EXPR_START"})
        IN  IF chunk_is_opening_brace(c3, pc)
            THEN set_paren_parent(c3, pc, c3[start].parent_type)
            ELSE c3

(* do_symbol_check: the paren pairs it hands to fix_casts *)
CastCandidate(cs, prev, pc, next, L) ==
   /\ "D" \notin L
   /\ cs[pc].type = "PAREN_OPEN"
   /\ cs[pc].parent_type \in {"NONE", "OC_MSG", "OC_BLOCK_EXPR"}
   /\ At(cs, next).type \in {"WORD", "TYPE", "STRUCT", "QUALIFIER", "MEMBER",
                             "DC_MEMBER", "ENUM", "UNION"}
   /\ At(cs, prev).type # "SIZEOF"
   /\ At(cs, prev).parent_type # "OPERATOR"

(* fix_casts reads prev->type of a paren pair that nothing precedes *)
CastNullDeref(cs, pc, L) ==
   /\ CastCandidate(cs, chunk_get_prev_nnl(cs, pc, "CNAV_PREPROC"), pc,
                    chunk_get_next_nnl(cs, pc, "CNAV_PREPROC"), L)
   /\ chunk_get_prev_nnl(cs, pc, "CNAV_ALL") = NULL
   /\ chunk_is_token(cs, CastInside(cs, pc).pc, "PAREN_CLOSE")

(* do_symbol_check(prev, pc, next): prev and next are NULL where the code
   passes its dummy chunk.  The branches are those a chunk kind of the
   lexer above can enter, in the order of the code; the branches for
   Objective C, D, C#, Pawn, Java and SQL kinds, for templates, C++ casts
   and square brackets other than the one of a lambda are never entered.
   next0 is the next chunk at the call; next is the same chunk after
   handle_cpp_lambda has added a chunk in front of it.  oc is what
   fix_casts reads where its prev is NULL. *)
SymbolCheckFrom(cs, prev, pc, next, L, oc) ==
   LET Typedef(c) ==
          IF c[pc].type = "TYPEDEF" THEN fix_typedef(c, pc) ELSE c
       Esu(c) ==
          IF c[pc].type \in {"ENUM", "STRUCT", "UNION"}
          THEN fix_enum_struct_union(c, pc) ELSE c
       Cast(c, k) ==
          IF k = "CPP_CAST" /\ c[pc].type # "CPP_CAST"
          THEN set_paren_parent(SetType(c, pc, k), next, "CPP_CAST")
          ELSE SetType(c, pc, k)
       Kind(c) ==
          IF At(c, next).type = "PAREN_OPEN"
          THEN Cast(c, FunctionKind(c, pc, next)) ELSE c
       Function(c) ==
          IF c[pc].type = "FUNCTION" THEN mark_function(c, pc, L) ELSE c
       Parens(c) ==
          IF c[pc].type \in {"FUNC_DEF", "FUNC_CALL", "FUNC_CALL_USER",
                             "FUNC_PROTO"}
          THEN MarkFcnParens(c, pc, next) ELSE c
       Brace(c) ==
          IF c[pc].type = "BRACE_OPEN"
             /\ At(c, prev).type = "FPAREN_CLOSE"
             /\ At(c, prev).parent_type \in {"FUNC_CALL", "FUNC_CALL_USER"}
             /\ ~HasFlag(c[pc], "IN_CONST_ARGS")
          THEN set_paren_parent(c, pc, "FUNC_CALL") ELSE c
       FcnType(c) ==
          IF next # NULL
             /\ ~HasFlag(c[pc], "IN_TYPEDEF")
             /\ ~HasFlag(c[pc], "IN_TEMPLATE")
             /\ c[pc].parent_type \notin {"CPP_CAST", "C_CAST", "OC_MSG_DECL",
                                          "OC_MSG_SPEC"}
             /\ ~HasFlag(c[pc], "IN_PREPROC")
             /\ chunk_is_str(c, pc, ")")
             /\ chunk_is_str(c, next, "(")
          THEN mark_function_type(c, pc) ELSE c
       Class(c) ==
          IF c[pc].type \in {"CLASS", "STRUCT"}
             /\ c[pc].level = c[pc].brace_level
             /\ (c[pc].type # "STRUCT" \/ "C" \notin L)
          THEN mark_class_ctor(c, pc) ELSE c
       Namespace(c) ==
          IF c[pc].type = "NAMESPACE" THEN mark_namespace(c, pc) ELSE c
       Casts(c) ==
          IF CastCandidate(c, prev, pc, next, L) THEN fix_casts(c, pc, oc)
          ELSE c
       Deref(c) ==
          IF ~HasFlag(c[pc], "EXPR_START") THEN c
          ELSE IF c[pc].type = "STAR"
          THEN SetType(c, pc, IF At(c, prev).type = "ANGLE_CLOSE"
                              THEN "PTR_TYPE" ELSE "DEREF")
          ELSE IF c[pc].type = "MINUS" THEN SetType(c, pc, "NEG")
          ELSE IF c[pc].type = "PLUS" THEN SetType(c, pc, "POS")
          ELSE IF c[pc].type = "AMP" THEN SetType(c, pc, "ADDR")
          ELSE c
       Tagged(c) ==
          IF ~HasFlag(c[pc], "IN_TYPEDEF")
             /\ At(c, prev).parent_type # "CPP_CAST"
             /\ ~HasFlag(At(c, prev), "IN_FCN_DEF")
             /\ c[pc].type \in {"STRUCT", "UNION", "CLASS", "ENUM"}
          THEN MarkTaggedVarDef(c, pc, next) ELSE c
       Macro(c) ==
          IF c[pc].type = "MACRO_FUNC"
          THEN flag_parens(c, next, {"IN_FCN_CALL"}, "FPAREN_OPEN",
                           "MACRO_FUNC", FALSE)
          ELSE c
       Star(c) ==
          IF c[pc].type # "STAR" THEN c
          ELSE SetType(c, pc,
                  IF chunk_is_paren_close(c, next)
                     \/ At(c, next).type = "COMMA"
                  THEN "PTR_TYPE"
                  ELSE IF At(c, prev).type \in {"SIZEOF", "DELETE"}
                  THEN "DEREF"
                  ELSE IF (At(c, prev).type = "WORD"
                           /\ chunk_ends_type(c, prev))
                          \/ At(c, prev).type \in {"DC_MEMBER", "PTR_TYPE"}
                  THEN "PTR_TYPE"
                  ELSE IF At(c, next).type = "SQUARE_OPEN" THEN "PTR_TYPE"
                  ELSE IF HasFlag(At(c, prev), "PUNCTUATOR")
                          /\ (~chunk_is_paren_close(c, prev)
                              \/ At(c, prev).parent_type = "MACRO_FUNC")
                          /\ At(c, prev).type \notin {"SQUARE_CLOSE",
                                                      "DC_MEMBER"}
                  THEN "DEREF"
                  ELSE "ARITH")
       Amp(c) ==
          IF c[pc].type # "AMP" THEN c
          ELSE IF At(c, prev).type = "DELETE" THEN SetType(c, pc, "ADDR")
          ELSE IF At(c, prev).type = "TYPE" THEN SetType(c, pc, "BYREF")
          ELSE LET tmp == chunk_get_prev_nnl(c, prev, "CNAV_ALL")
               IN  IF At(c, prev).type = "WORD" /\ tmp # NULL
                      /\ (chunk_is_semicolon(c, tmp)
                          \/ c[tmp].type \in {"BRACE_OPEN", "QUALIFIER"})
                   THEN SetType(SetType(c, prev, "TYPE"), pc, "ADDR")
                   ELSE SetType(c, pc, "ARITH")
       Sign(c) ==
          IF c[pc].type \notin {"MINUS", "PLUS"} THEN c
          ELSE SetType(c, pc,
                  IF At(c, prev).type \in {"POS", "NEG", "OC_CLASS"}
                  THEN (IF c[pc].type = "MINUS" THEN "NEG" ELSE "POS")
                  ELSE "ARITH")
   IN  AndThen(AndThen(AndThen(AndThen(AndThen(AndThen(AndThen(AndThen(
          AndThen(AndThen(AndThen(AndThen(AndThen(AndThen(AndThen(AndThen(cs,
             Typedef), Esu), Kind), Function), Parens), Brace), FcnType),
             Class), Namespace), Casts), Deref), Tagged), Macro), Star),
             Amp), Sign)

(* do_symbol_check: a C++ lambda is handled first; the chunk it splits off
   the "[]" moves next one place on *)
do_symbol_check(cs, prev, pc, next0, L, oc) ==
   AndThen(IF "CPP" \in L /\ cs[pc].type \in {"SQUARE_OPEN", "TSQUARE"}
              /\ ~chunk_is_word(cs, prev)
           THEN handle_cpp_lambda(cs, pc) ELSE cs,
           LAMBDA c : SymbolCheckFrom(c, prev, pc,
                                      IF Len(c) > Len(cs) /\ next0 # NULL
                                      THEN next0 + 1 ELSE next0,
                                      L, oc))

(***************************************************************************)
(* scope.cpp                                                               *)
(***************************************************************************)
Skipped(c) == HasFlag(c, "PUNCTUATOR") \/ HasFlag(c, "KEYWORD")

IsDtor(c) == c.type = "FUNC_CLASS" /\ c.parent_type = "DESTRUCTOR"

(* Faulty variant: the resolved scopes appended after a colon whether or
   not the chunk has a scope already *)
mark_resolved_scopes_colon(cs, i, res) ==
   IF Len(res) > 0
   THEN [cs EXCEPT ![i].scope = @ \o <<":">> \o res]
   ELSE cs

mark_resolved_scopes(cs, i, res) ==
   IF Len(res) > 0
   THEN [cs EXCEPT ![i].scope =
           (IF Len(@) > 0 THEN @ \o <<":">> ELSE @) \o res]
   ELSE cs

(* sc is the scope-introducing chunk, deco is <<>> for a NULL decoration *)
mark_scope_single(cs, i, sc, deco, res) ==
   [cs EXCEPT ![i].scope =
       (IF Len(@) > 0 THEN @ \o <<":">> ELSE @)
       \o (IF Len(res) > 0 THEN res \o <<":">> ELSE <<>>)
       \o (IF IsDtor(cs[sc]) THEN <<"~">> ELSE <<>>)
       \o <<cs[sc].str>>
       \o deco]

(* the chunk mark_scope returns: the matching close, or NULL at the end *)
RECURSIVE MarkScopeEnd(_, _, _)
MarkScopeEnd(cs, popen, pc) ==
   IF pc = NULL THEN NULL
   ELSE IF cs[pc].type = CloseOf(cs[popen].type)
           /\ (cs[pc].level = cs[popen].level \/ cs[popen].level < 0)
        THEN pc
   ELSE MarkScopeEnd(cs, popen, chunk_get_next(cs, pc, "CNAV_PREPROC"))

RECURSIVE MarkScopeFrom(_, _, _, _, _, _)
MarkScopeFrom(cs, popen, pc, sc, deco, res) ==
   IF pc = NULL THEN cs
   ELSE LET cs1 == IF ~Skipped(cs[pc])
                   THEN mark_scope_single(cs, pc, sc, deco, res) ELSE cs
        IN  IF cs[pc].type = CloseOf(cs[popen].type)
               /\ (cs[pc].level = cs[popen].level \/ cs[popen].level < 0)
            THEN cs1
            ELSE MarkScopeFrom(cs1, popen,
                               chunk_get_next(cs, pc, "CNAV_PREPROC"),
                               sc, deco, res)

mark_scope(cs, popen, sc, deco, res) ==
   MarkScopeFrom(cs, popen, popen, sc, deco, res)

(* get_resolved_scopes: the walk back over "TYPE :: TYPE ::".  The result
   is [res, null]: null is TRUE when the walk read prev->type of a NULL
   prev (line 106). *)
RECURSIVE ResolveWalk(_, _, _, _)
ResolveWalk(cs, prev, first, res) ==
   IF prev # NULL /\ cs[prev].type = "DC_MEMBER"
   THEN LET p1 == chunk_get_prev_nnl(cs, prev, "CNAV_PREPROC")
        IN  IF p1 = NULL THEN [res |-> res, null |-> TRUE]
            ELSE IF cs[p1].type # "TYPE" THEN [res |-> res, null |-> FALSE]
            ELSE ResolveWalk(cs, chunk_get_prev_nnl(cs, p1, "CNAV_PREPROC"),
                             FALSE,
                             <<cs[p1].str>>
                                \o (IF ~first THEN <<":">> ELSE <<>>) \o res)
   ELSE [res |-> res, null |-> FALSE]

get_resolved_scopes(cs, sc) ==
   LET Walk(prev) ==
          ResolveWalk(cs,
                      IF IsDtor(cs[sc])
                      THEN chunk_get_prev_nnl(cs, prev, "CNAV_PREPROC")
                      ELSE prev,
                      TRUE, <<>>)
   IN  Walk(chunk_get_prev_nnl(cs, sc, "CNAV_PREPROC"))

RECURSIVE SkipQualifiers(_, _)
SkipQualifiers(cs, n) ==
   IF n # NULL /\ cs[n].type = "QUALIFIER"
   THEN SkipQualifiers(cs, chunk_get_next_nnl(cs, n, "CNAV_PREPROC")) ELSE n

(* default arguments of a constructor definition (lines 228-232) *)
RECURSIVE MarkConstArgs(_, _, _, _)
MarkConstArgs(cs, n, sc, res) ==
   IF n # NULL /\ HasFlag(cs[n], "IN_CONST_ARGS")
   THEN MarkConstArgs(mark_scope_single(cs, n, sc, <<"()">>, res),
                      chunk_get_next_nnl(cs, n, "CNAV_PREPROC"), sc, res)
   ELSE [cs |-> cs, next |-> n]

(* does the switch of assign_scope name a scope at chunk i? *)
ScopeCase(c) ==
   CASE c.type = "WORD" /\ c.parent_type # "NAMESPACE" /\ HasFlag(c, "DEF")
           -> "WORD"
     [] c.type = "TYPE"
        /\ c.parent_type \in {"CLASS", "STRUCT", "UNION", "ENUM"}
        /\ HasFlag(c, "DEF")
           -> "TYPE"
     [] c.type = "FUNC_PROTO" -> "FUNC_PROTO"
     [] c.type = "FUNC_DEF"   -> "FUNC_DEF"
     [] c.type = "FUNC_CLASS" /\ (c.flags \cap {"DEF", "PROTO"}) # {}
           -> "FUNC_CLASS"
     [] OTHER -> "NONE"

(* the switch reads next->type, and get_resolved_scopes prev->type, of a
   NULL chunk *)
ScopeNullDeref(cs, i) ==
   /\ ~Skipped(cs[i])
   /\ ScopeCase(cs[i]) # "NONE"
   /\ \/ get_resolved_scopes(cs, i).null
      \/ chunk_get_next_nnl(cs, i, "CNAV_PREPROC") = NULL

(* the switch of assign_scope at chunk i, entered when ScopeCase names a
   case *)
ScopeSwitch(cs, i) ==
   LET Brace(cs1, n, deco, res) ==
          IF n # NULL /\ cs1[n].type = "BRACE_OPEN"
          THEN mark_scope(cs1, n, i, deco, res) ELSE cs1
       Paren(cs0, next, res) ==
          IF cs0[next].type = "FPAREN_OPEN"
          THEN [cs   |-> mark_scope(cs0, next, i, <<"()">>, res),
                next |-> MarkScopeEnd(cs0, next, next)]
          ELSE [cs |-> cs0, next |-> next]
       Def(p, res) ==
          Brace(p.cs,
                SkipQualifiers(p.cs, chunk_get_next_nnl(p.cs, p.next,
                                                        "CNAV_PREPROC")),
                <<"{}">>, res)
       Args(m, res) == Brace(m.cs, m.next, <<"{}">>, res)
       Class(p, res) ==
          IF HasFlag(cs[i], "DEF")
          THEN Args(MarkConstArgs(p.cs, p.next, i, res), res)
          ELSE p.cs
       Switch(kase, cs0, next, res) ==
          CASE kase \in {"WORD", "TYPE"} -> Brace(cs0, next, <<>>, res)
            [] kase = "FUNC_PROTO" -> Paren(cs0, next, res).cs
            [] kase = "FUNC_DEF"   -> Def(Paren(cs0, next, res), res)
            [] kase = "FUNC_CLASS" -> Class(Paren(cs0, next, res), res)
       Res(res) ==
          Switch(ScopeCase(cs[i]), mark_resolved_scopes(cs, i, res),
                 chunk_get_next_nnl(cs, i, "CNAV_PREPROC"), res)
   IN  IF ScopeCase(cs[i]) = "NONE" THEN cs
       ELSE Res(get_resolved_scopes(cs, i).res)

DefaultScope(c) ==
   IF HasFlag(c, "STATIC") THEN <<"<local>">>
   ELSE IF HasFlag(c, "IN_PREPROC") THEN <<"<preproc>">>
   ELSE <<"<global>">>

(* one iteration of the loop of assign_scope, at chunk i *)
assign_scope_chunk(cs, i) ==
   LET Default(cs1) ==
          IF Len(cs1[i].scope) = 0
          THEN [cs1 EXCEPT ![i].scope = DefaultScope(cs1[i])]
          ELSE cs1
   IN  IF Skipped(cs[i]) THEN cs ELSE Default(ScopeSwitch(cs, i))

(***************************************************************************)
(* output.cpp                                                              *)
(***************************************************************************)
(* the sub-kind read from the DEF / PROTO / REF flags *)
SubTypeFromFlags(c) ==
   IF HasFlag(c, "DEF") THEN "DEFINITION"
   ELSE IF HasFlag(c, "PROTO") THEN "DECLARATION"
   ELSE IF HasFlag(c, "REF") THEN "REFERENCE"
   ELSE "UNKNOWN"

(* the kind of a TYPE chunk whose parent is TYPEDEF *)
TypedefKind(c) ==
   IF HasFlag(c, "TYPEDEF_STRUCT") THEN "STRUCT_TYPE"
   ELSE IF HasFlag(c, "TYPEDEF_UNION") THEN "UNION_TYPE"
   ELSE IF HasFlag(c, "TYPEDEF_ENUM") THEN "ENUM_TYPE"
   ELSE "TYPE"

NoRecord ==
   [emit |-> FALSE, type |-> "UNKNOWN", sub_type |-> "UNKNOWN",
    id_scope |-> "<unknown>"]

Rec(t, st, sc) == [emit |-> TRUE, type |-> t, sub_type |-> st, id_scope |-> sc]

(* the case CT_TYPE of output() *)
TypeRecord(c) ==
   IF HasFlag(c, "KEYWORD") THEN NoRecord
   ELSE IF c.parent_type = "TYPEDEF"
   THEN Rec(TypedefKind(c), "DEFINITION", "<unknown>")
   ELSE IF c.parent_type \in {"STRUCT", "UNION", "ENUM"}
   THEN Rec(c.parent_type, SubTypeFromFlags(c), "<unknown>")
   ELSE IF c.parent_type = "CLASS"
   THEN Rec("CLASS", SubTypeFromFlags(c), "<unknown>")
   ELSE Rec("TYPE", "REFERENCE", "<unknown>")

(* the case CT_FUNC_VAR / CT_WORD of output() *)
WordRecord(c) ==
   IF c.parent_type # "NONE" THEN NoRecord
   ELSE IF HasFlag(c, "IN_ENUM") THEN Rec("ENUM_VAL", "DEFINITION", "<unknown>")
   ELSE IF HasFlag(c, "VAR_DEF") THEN Rec("VAR", "DEFINITION", "<unknown>")
   ELSE IF HasFlag(c, "VAR_DECL") THEN Rec("VAR", "DECLARATION", "<unknown>")
   ELSE Rec("VAR", "REFERENCE", "<unknown>")

(* the body of the loop of output(): the (type, sub_type, scope) chosen
   for a chunk, or no record when the code continues *)
output_chunk(c) ==
   IF HasFlag(c, "PUNCTUATOR") THEN NoRecord
   ELSE CASE c.type = "FUNC_DEF"   -> Rec("FUNCTION", "DEFINITION", "<unknown>")
          [] c.type = "FUNC_PROTO" -> Rec("FUNCTION", "DECLARATION", "<unknown>")
          [] c.type = "FUNC_CALL"  -> Rec("FUNCTION", "REFERENCE", "<unknown>")
          [] c.type = "FUNC_CLASS" -> Rec("FUNCTION", "UNKNOWN", "<unknown>")
          [] c.type = "MACRO_FUNC" ->
               Rec("MACRO_FUNCTION", "DEFINITION", "<global>")
          [] c.type = "MACRO"      -> Rec("MACRO", "DEFINITION", "<global>")
          [] c.type = "TYPE"       -> TypeRecord(c)
          [] c.type = "FUNC_TYPE"  ->
               Rec("FUNCTION_TYPE", "DEFINITION", "<unknown>")
          [] c.type \in {"FUNC_VAR", "WORD"} -> WordRecord(c)
          [] OTHER -> NoRecord

(* The scope path of a record.  output() hands output_identifier one of
   four fixed tags (id_scope below); the scope path that the records of
   the index carry is the string assign_scope left in the chunk. *)
RecordScope(cs, i) == cs[i].scope

(* the record handed to the consumer for chunk i: (line, column, scope,
   kind, sub-kind, text) *)
output_identifier(cs, i) ==
   LET Fill(r) ==
          [idx |-> i, line |-> cs[i].orig_line, column |-> cs[i].orig_col,
           scope |-> RecordScope(cs, i),
           id_scope |-> r.id_scope, type |-> r.type,
           sub_type |-> r.sub_type, text |-> cs[i].str]
   IN  Fill(output_chunk(cs[i]))

(***************************************************************************)
(* Input files, as lexeme sequences.                                       *)
(***************************************************************************)
RECURSIVE ParamList(_)
ParamList(n) ==
   IF n = 0 THEN <<>>
   ELSE IF n = 1 THEN <<"T", "a">>
   ELSE ParamList(n - 1) \o <<",", "T", "b">>

ParamLists == {<<>>, <<"void">>} \cup {ParamList(n) : n \in 1..MaxParams}

(* the statements of a function body *)
Stmts ==
   { <<"x", "=", "f", "(", ")", ";">>,
     <<"g", "(", "a", ")", ";">>,
     <<"T", "v", "(", ")", ";">>,
     <<"x", "=", "int", "(", ")", ";">>,
     <<"struct", "s", "{", "int", "b", ";", "}", "v", ";">>,
     <<"\n", "#", "define", "X", "y", "\n">> }

RECURSIVE StmtSeqs(_)
StmtSeqs(n) ==
   IF n = 0 THEN {<<>>}
   ELSE {s \o t : s \in StmtSeqs(n - 1), t \in Stmts}

RECURSIVE Wrap(_, _)
Wrap(body, d) ==
   IF d = 0 THEN body ELSE <<"{">> \o Wrap(body, d - 1) \o <<"}">>

Bodies ==
   {Wrap(b, d) : b \in UNION {StmtSeqs(n) : n \in 0..MaxStmts},
                 d \in 0..MaxDepth}

FuncHead(q, r, ps) == q \o r \o <<"f", "(">> \o ps \o <<")">>

FuncProtos ==
   {FuncHead(q, r, ps) \o <<";">> :
       q \in {<<>>, <<"static">>, <<"extern">>},
       r \in {<<"int">>, <<"T">>}, ps \in ParamLists}

FuncDefs ==
   {FuncHead(q, <<"int">>, ps) \o <<"{", "}">> :
       q \in {<<>>, <<"static">>}, ps \in ParamLists}
   \cup {FuncHead(<<>>, <<"void">>, ps) \o <<"{">> \o b \o <<"}">> :
            ps \in {<<>>, ParamList(MaxParams)}, b \in Bodies}

(* what follows the function in the file *)
Trailers == {<<>>, <<"\n", "int", "v", ";">>}

TypedefFiles ==
   {<<"typedef", k, "foo", "{">> \o m \o <<"}", "foo_t", ";">> :
       k \in {"struct", "union"},
       m \in {<<"int", "a", ";">>, <<"T", "a", ";">>}}
   \cup {<<"typedef", "enum", "foo", "{", "a", "}", "foo_t", ";">>,
         <<"typedef", "enum", "foo", "{", "int", "a", ";", "}", "foo_t", ";">>,
         <<"typedef", "int", "f", "(", "void", ")", ";">>,
         <<"typedef", "int", "(", "*", "f", ")", "(", "void", ")", ";">>,
         <<"typedef", "int", "(", "f", ")", "(", "void", ")", ";">>,
         <<"typedef", "int", "(", "*", "*", "f", ")", "(", "void", ")", ";">>,
         <<"typedef", "int", "foo_t", ";">>}

VarFiles ==
   {q \o <<"int", "v", ";">> : q \in {<<>>, <<"static">>, <<"extern">>}}
   \cup {<<"static", "(", "*", "x", ")", "(", "void", ")", ";">>,
         <<"static", "(", "*", "x", ")", "(", "int", "a", ")", "{", "}">>}
   \cup {<<"struct", "s", ";">>, <<"struct", "s", "x", ";">>,
         <<"enum", "foo", "{", "a", ",", "b", "}", ";">>}

MacroFiles ==
   {<<"#", "define", "X", "y", "\n">>,
    <<"#", "define", "MAX", "(", "a", ",", "b", ")", "a", "\n">>,
    <<"\n", "#", "define", "X", "1", "\n", "int", "v", ";">>,
    <<"static", "int", "v", ";", "\n", "#", "define", "X", "y", "\n",
      "int", "x", ";">>,
    <<"#", "define", "X", "struct", "s", "\n", "{", "int", "a", ";", "}",
      ";">>}

(* files with a star in each of the places do_symbol_check tells apart *)
StarFiles ==
   {<<"#", "define", "MAX", "(", "a", ")", "*", "a", "\n">>,
    <<"T", "*", "a", ";">>,
    <<"int", "f", "(", "T", "*", ",", "T", "*", "a", ")", ";">>}
   \cup {<<"void", "f", "(", ")", "{">> \o b \o <<";", "}">> :
            b \in {<<"x", "=", "a", "*", "b">>,
                   <<"x", "=", "*", "a">>,
                   <<"x", "=", "sizeof", "*", "a">>,
                   <<"x", "=", "a", "*", "*", "b">>,
                   <<"x", "=", "g", "(", ")", "*", "b">>,
                   <<"a", "*", "b">>}}

(* files whose function name is followed, after the close paren, by a
   comma or by the end of the file *)
ScanFiles ==
   {<<"int", "f", "(", ")", ",", "g", ";">>,
    <<"T", "a", "(", "b", ")", ",", "g", ";">>,
    <<"int", "f", "(", ")">>,
    <<"int", "f", "(", "int", "a", ")">>,
    <<"int", "f", "(", ")", "x">>}

(* files with declarator lists, initializers and square brackets *)
VarDeclFiles ==
   {<<"int", "a", ",", "b", ";">>,
    <<"static", "int", "a", "=", "b", ",", "x", ";">>,
    <<"extern", "T", "*", "a", ",", "*", "b", ";">>,
    <<"int", "a", "[", "b", "]", ",", "x", ";">>,
    <<"T", "*", "a", "[", "b", "]", ";">>,
    <<"x", "=", "a", ";">>,
    <<"int", "a">>,
    <<"*", "a", "[", "{", "T", "b", ";", "}", "]", "=", "x", ";">>,
    <<"x", "=", "a", "[", "{", "T", "b", ";", "}", "]", ";">>,
    <<"void", "f", "(", ")", "{", "int", "a", ",", "b", "=", "x", ";",
      "T", "y", ";", "}">>}

CFiles ==
   {f \o t : f \in FuncProtos \cup FuncDefs, t \in Trailers}
   \cup TypedefFiles \cup VarFiles \cup MacroFiles \cup StarFiles
   \cup ScanFiles \cup VarDeclFiles

CppFiles ==
   {<<"namespace", "N", "{", "class", "C", "{", "void", "m", "(", ")", ";",
      "}", ";", "}", "void", "N", "::", "C", "::", "m", "(", ")", "{", "}">>,
    <<"class", "C", "{", "C", "(", ")", ";", "}", ";">>,
    <<"class", "C", "{", "C", "(", ")", "{", "}", "}", ";">>,
    <<"class", "C", ";">>,
    <<"int", "T", "::", "*", "a", ";">>,
    <<"struct", "s", ":", "T", "{", "}", ";">>,
    <<"class", "C", ":", "T", "{", "}", ";">>,
    <<"struct", "s", "{", "int", "b", ";", "}", ";">>}
   \cup {FuncHead(<<>>, <<"void">>, <<>>) \o <<"{">> \o b \o <<"}">> :
            b \in Bodies}
   \cup {<<"void", "f", "(", ")", "{", "x", "=", "[]", "(", ")", "{", "}",
           ";", "g", "(", ")", ";", "}">>,
         <<"void", "f", "(", ")", "{", "x", "=", "[]", "(", "T", "a", ")",
           "{", "g", "(", "a", ")", ";", "}", ";", "\n", "y", "=", "g", "(",
           ")", ";", "}">>}


(***************************************************************************)
(* The pipeline as a state machine.  stage is the pass that is running and *)
(* cur its loop cursor; each step is one iteration of the loop of a pass.  *)
(***************************************************************************)
Stages == <<"start", "pass1", "pass2", "scope", "output", "done">>

(* chunk_get_head *)
chunk_get_head(cs) == IF Len(cs) = 0 THEN NULL ELSE 1

Init ==
   /\ \/ \E p \in CFiles   : chunks = Lex(p, {"C"})   /\ lang = {"C"}
      \/ \E p \in CppFiles : chunks = Lex(p, {"CPP"}) /\ lang = {"CPP"}
   /\ stage = "start"
   /\ cur = NULL
   /\ sqlvl = -1
   /\ out = <<>>
   /\ tk = <<>>
   /\ lbl = <<>>

(* fix_symbols up to its main loop: mark_define_expressions, the lvalue
   loop, and the head of the list with a leading newline skipped *)
FixSymbolsStart ==
   /\ stage = "start"
   /\ chunks' = LvalueLoop(mark_define_expressions(chunks),
                           chunk_get_head(chunks))
   /\ cur' = IF chunk_is_newline(chunks, chunk_get_head(chunks))
             THEN chunk_get_next_nnl(chunks, chunk_get_head(chunks),
                                     "CNAV_ALL")
             ELSE chunk_get_head(chunks)
   /\ stage' = "pass1"
   /\ UNCHANGED <<lang, sqlvl, out, tk, lbl>>

(* one iteration of the main loop of fix_symbols.  Where fix_casts reads
   the kind of a NULL chunk the run ends, or goes on with either outcome
   of the comparison. *)
DoSymbolCheckStep ==
   /\ stage = "pass1"
   /\ cur # NULL
   /\ \E o \in IF CastNullDeref(chunks, cur, lang)
                THEN {"crash", "true", "false"} ELSE {"false"} :
         IF o = "crash"
         THEN stage' = "crashed" /\ UNCHANGED <<chunks, cur>>
         ELSE /\ chunks' = do_symbol_check(
                              chunks,
                              chunk_get_prev_nnl(chunks, cur, "CNAV_PREPROC"),
                              cur,
                              chunk_get_next_nnl(chunks, cur, "CNAV_PREPROC"),
                              lang, o = "true")
              /\ cur' = chunk_get_next_nnl(chunks', cur, "CNAV_ALL")
              /\ stage' = stage
   /\ UNCHANGED <<lang, sqlvl, out, tk, lbl>>

(* the square_level bookkeeping of the 2nd pass *)
SquareLevel(c, square_level) ==
   IF square_level < 0
   THEN (IF c.type = "SQUARE_OPEN" THEN c.level ELSE square_level)
   ELSE (IF c.level <= square_level THEN -1 ELSE square_level)

(* one iteration of the 2nd pass of fix_symbols: variable definitions *)
VarDefStep ==
   /\ stage = "pass2"
   /\ cur # NULL
   /\ sqlvl' = SquareLevel(chunks[cur], sqlvl)
   /\ IF sqlvl' < 0
         /\ HasFlag(chunks[cur], "STMT_START")
         /\ chunks[cur].type \in {"QUALIFIER", "TYPE", "WORD"}
         /\ chunks[cur].parent_type # "ENUM"
         /\ ~HasFlag(chunks[cur], "IN_ENUM")
      THEN LET r == fix_var_def(chunks, cur)
           IN  chunks' = r.cs /\ cur' = r.pc
      ELSE /\ chunks' = chunks
           /\ cur' = chunk_get_next_nnl(chunks, cur, "CNAV_ALL")
   /\ UNCHANGED <<lang, stage, out, tk, lbl>>

(* one iteration of the loop of assign_scope.  Reading a field of a NULL
   chunk ends the run. *)
AssignScopeStep ==
   /\ stage = "scope"
   /\ cur # NULL
   /\ IF ScopeNullDeref(chunks, cur)
      THEN stage' = "crashed" /\ UNCHANGED <<chunks, cur>>
      ELSE /\ chunks' = assign_scope_chunk(chunks, cur)
           /\ cur' = chunk_get_next(chunks, cur, "CNAV_ALL")
           /\ stage' = stage
   /\ UNCHANGED <<lang, sqlvl, out, tk, lbl>>

(* one iteration of the loop of output() *)
OutputStep ==
   /\ stage = "output"
   /\ cur # NULL
   /\ out' = IF output_chunk(chunks[cur]).emit
             THEN Append(out, output_identifier(chunks, cur))
             ELSE out
   /\ cur' = chunk_get_next(chunks, cur, "CNAV_ALL")
   /\ UNCHANGED <<chunks, lang, stage, sqlvl, tk, lbl>>

(* a pass has run off the end of the list: the next pass starts at the
   head *)
NextStage ==
   /\ stage \in {"pass1", "pass2", "scope", "output"}
   /\ cur = NULL
   /\ stage' = CASE stage = "pass1"  -> "pass2"
                 [] stage = "pass2"  -> "scope"
                 [] stage = "scope"  -> "output"
                 [] stage = "output" -> "done"
   /\ cur' = IF stage = "output" THEN NULL ELSE chunk_get_head(chunks)
   /\ sqlvl' = -1
   /\ UNCHANGED <<chunks, lang, out, tk, lbl>>

Next ==
   \/ FixSymbolsStart
   \/ DoSymbolCheckStep
   \/ VarDefStep
   \/ AssignScopeStep
   \/ OutputStep
   \/ NextStage

Spec == Init /\ [][Next]_vars

Done == stage = "done"

(***************************************************************************)
(* The lexer over bytes (tokenize.cpp, lines 20-1336).  A byte is a        *)
(* one-character string; "x80" stands for a UTF-8 continuation byte and    *)
(* "xC3" for a UTF-8 lead byte.  EOF is what peek() returns past the end   *)
(* of the buffer (-1).  A chunk text is a sequence of bytes.               *)
(***************************************************************************)
EOF == "EOF"

DecDigits == {"0", "1", "2", "3", "4", "5", "6", "7", "8", "9"}
ContBytes == {"x80"}
HighBytes == {"xC3"} \cup ContBytes

isspace(ch) == ch \in {" ", "\t", "\n", "\r"}
isalpha(ch) == ch \in Lower \cup Upper
(* CharTable: the first byte and the later bytes of an identifier; a byte
   with the top bit set counts as an identifier byte *)
IsKw1(ch) == isalpha(ch) \/ ch = "_" \/ ch \in HighBytes
IsKw2(ch) == IsKw1(ch) \/ ch \in DecDigits

(* CharTable::Get(ch) & 0xff: the byte that closes a string opened by ch *)
EndCh(ch) == IF ch = "<" THEN ">" ELSE ch

(* the options the lexer reads *)
UO_input_tab_size == 8
UO_string_escape_char == "\\"
UO_string_escape_char2 == "NUL"

calc_next_tab_column(col, tabsize) ==
   1 + (((col - 1) \div tabsize) + 1) * tabsize

(* tok_info and the cursor operations of tok_ctx; idx counts from 0 *)
tok_info == [last_ch |-> "NUL", idx |-> 0, row |-> 1, col |-> 1]

ctx_more(d, c) == c.idx < Len(d)

ctx_peek(d, c, k) == IF c.idx + k < Len(d) THEN d[c.idx + k + 1] ELSE EOF

ctx_get(d, c) ==
   LET Adv(ch) ==
          [last_ch |-> ch,
           idx     |-> c.idx + 1,
           row     |-> IF ch = "\r" \/ (ch = "\n" /\ c.last_ch # "\r")
                       THEN c.row + 1 ELSE c.row,
           col     |-> IF ch = "\t"
                       THEN calc_next_tab_column(c.col, UO_input_tab_size)
                       ELSE IF ch = "\r" \/ (ch = "\n" /\ c.last_ch # "\r")
                       THEN 1
                       ELSE IF ch = "\n" \/ ch \in ContBytes
                       THEN c.col
                       ELSE c.col + 1]
   IN  IF ctx_more(d, c) THEN Adv(d[c.idx + 1]) ELSE c

ctx_expect(d, c, ch) == IF ctx_peek(d, c, 0) = ch THEN ctx_get(d, c) ELSE c

(* pc.str.append(1, ctx.get()) on the pair p of cursor and text *)
Take(d, p) ==
   [p EXCEPT !.c = ctx_get(d, p.c), !.str = Append(@, ctx_peek(d, p.c, 0))]

RECURSIVE TakeN(_, _, _)
TakeN(d, p, n) == IF n = 0 THEN p ELSE TakeN(d, Take(d, p), n - 1)

(* while (S holds of ctx.peek()) pc.str.append(1, ctx.get()) *)
RECURSIVE TakeWhile(_, _, _)
TakeWhile(d, p, S) ==
   IF ctx_peek(d, p.c, 0) \in S THEN TakeWhile(d, Take(d, p), S) ELSE p

(* what a parse routine hands back: whether it parsed, the cursor, the
   text and the kind of the chunk *)
Parsed(ok, c, str, type) == [ok |-> ok, c |-> c, str |-> str, type |-> type]

(* Faulty variant: parse_whitespace that takes the empty run for
   whitespace *)
parse_whitespace_empty(d, c) == Parsed(TRUE, c, <<>>, "WHITESPACE")

(* parse_whitespace *)
RECURSIVE WhitespaceFrom(_, _, _, _)
WhitespaceFrom(d, c, nl_found, ret) ==
   IF isspace(ctx_peek(d, c, 0))
   THEN WhitespaceFrom(d, ctx_get(d, c),
                       nl_found \/ ctx_peek(d, c, 0) = "\n", TRUE)
   ELSE Parsed(ret, c, <<>>, IF nl_found THEN "NEWLINE" ELSE "WHITESPACE")

parse_whitespace(d, c) == WhitespaceFrom(d, c, FALSE, FALSE)

(* parse_bs_newline: c is the cursor after the backslash *)
RECURSIVE BsNewlineFrom(_, _, _)
BsNewlineFrom(d, c0, c) ==
   IF ~isspace(ctx_peek(d, c, 0))
   THEN Parsed(FALSE, c0, <<>>, "NONE")
   ELSE IF ctx_peek(d, c, 0) = "\r"
   THEN Parsed(TRUE, ctx_expect(d, ctx_get(d, c), "\n"), <<"\\">>, "NL_CONT")
   ELSE IF ctx_peek(d, c, 0) = "\n"
   THEN Parsed(TRUE, ctx_get(d, c), <<"\\">>, "NL_CONT")
   ELSE BsNewlineFrom(d, c0, ctx_get(d, c))

parse_bs_newline(d, c) == BsNewlineFrom(d, c, ctx_get(d, c))

(* parse_comment, the line comment: an odd number of backslashes before
   the newline carries the comment on to the next line *)
RECURSIVE CppCommentFrom(_, _, _)
CppCommentFrom(d, c, bs_cnt) ==
   IF ~ctx_more(d, c) THEN c
   ELSE IF ctx_peek(d, c, 0) \in {"\r", "\n"}
   THEN IF bs_cnt % 2 = 0 THEN c
        ELSE CppCommentFrom(d, ctx_expect(d, ctx_expect(d, c, "\r"), "\n"), 0)
   ELSE CppCommentFrom(d, ctx_get(d, c),
                       IF ctx_peek(d, c, 0) = "\\" THEN bs_cnt + 1 ELSE 0)

(* parse_comment, the block comment *)
RECURSIVE CCommentFrom(_, _)
CCommentFrom(d, c) ==
   IF ~ctx_more(d, c) THEN c
   ELSE IF ctx_peek(d, c, 0) = "*" /\ ctx_peek(d, c, 1) = "/"
   THEN ctx_get(d, ctx_get(d, c))
   ELSE CCommentFrom(d, ctx_get(d, c))

(* Faulty variant: the comment of D without nesting, closed by the first
   "+/" whatever was opened inside it *)
RECURSIVE DCommentFlat(_, _, _)
DCommentFlat(d, c, d_level) ==
   IF ~(d_level > 0 /\ ctx_more(d, c)) THEN c
   ELSE IF ctx_peek(d, c, 0) = "+" /\ ctx_peek(d, c, 1) = "/"
   THEN DCommentFlat(d, ctx_get(d, ctx_get(d, c)), 0)
   ELSE DCommentFlat(d, ctx_get(d, c), d_level)

(* parse_comment, the nestable comment of D *)
RECURSIVE DCommentFrom(_, _, _)
DCommentFrom(d, c, d_level) ==
   IF ~(d_level > 0 /\ ctx_more(d, c)) THEN c
   ELSE IF ctx_peek(d, c, 0) = "+" /\ ctx_peek(d, c, 1) = "/"
   THEN DCommentFrom(d, ctx_get(d, ctx_get(d, c)), d_level - 1)
   ELSE IF ctx_peek(d, c, 0) = "/" /\ ctx_peek(d, c, 1) = "+"
   THEN DCommentFrom(d, ctx_get(d, ctx_get(d, c)), d_level + 1)
   ELSE IF ctx_peek(d, c, 0) = "\r"
   THEN DCommentFrom(d, ctx_expect(d, ctx_get(d, c), "\n"), d_level)
   ELSE DCommentFrom(d, ctx_get(d, c), d_level)

parse_comment(d, c, L) ==
   LET Open(ch, c2) ==
          IF ch = "/"
          THEN Parsed(TRUE, CppCommentFrom(d, c2, 0), <<>>, "WHITESPACE")
          ELSE IF ~ctx_more(d, c2)
          THEN Parsed(FALSE, c, <<>>, "NONE")
          ELSE IF ch = "*"
          THEN Parsed(TRUE, CCommentFrom(d, c2), <<>>, "WHITESPACE")
          ELSE Parsed(TRUE, DCommentFrom(d, c2, 1), <<>>, "WHITESPACE")
   IN  IF ctx_peek(d, c, 0) # "/"
          \/ (/\ ctx_peek(d, c, 1) # "*"
              /\ ctx_peek(d, c, 1) # "/"
              /\ (ctx_peek(d, c, 1) # "+" \/ "D" \notin L))
       THEN Parsed(FALSE, c, <<>>, "NONE")
       ELSE Open(ctx_peek(d, c, 1), ctx_get(d, ctx_get(d, c)))

(* parse_suffix on the pair p of cursor and text *)
SuffixRollback(p0, p, forstring) ==
   IF /\ forstring
      /\ Len(p.str) - Len(p0.str) >= 4
      /\ Len(p.str) >= 3
      /\ SubSeq(p.str, 1, 3) \in {<<"P", "R", "I">>, <<"S", "C", "N">>}
   THEN p0 ELSE p

parse_suffix(d, p, forstring) ==
   IF ~IsKw1(ctx_peek(d, p.c, 0)) THEN p
   ELSE IF /\ forstring
           /\ \/ (ctx_peek(d, p.c, 0) = "L"
                  /\ ctx_peek(d, p.c, 1) \in {"\"", "'"})
              \/ (ctx_peek(d, p.c, 0) = "S" /\ ctx_peek(d, p.c, 1) = "\"")
   THEN p
   ELSE SuffixRollback(p, TakeWhile(d, p, {ch \in Lower \cup Upper \cup
                                            DecDigits \cup HighBytes
                                            \cup {"_"} : IsKw2(ch)}),
                       forstring)

is_bin_(ch) == ch \in {"0", "1", "_"}
is_oct_(ch) == ch \in {"0", "1", "2", "3", "4", "5", "6", "7", "_"}
is_dec(ch) == ch \in DecDigits
is_dec_(ch) == ch \in DecDigits \cup {"_"}
is_hex_(ch) ==
   ch \in DecDigits \cup {"a", "b", "c", "d", "e", "f",
                          "A", "B", "C", "D", "E", "F", "_"}

(* parse_number, "check for hex, octal or binary": p has taken the '0' *)
NumberRadix(d, p) ==
   IF toupper(ctx_peek(d, p.c, 0)) = "X"
   THEN [p |-> TakeWhile(d, Take(d, p), {ch \in DecDigits \cup Lower
                                          \cup Upper \cup {"_"} : is_hex_(ch)}),
         did_hex |-> TRUE]
   ELSE IF toupper(ctx_peek(d, p.c, 0)) = "B"
   THEN [p |-> TakeWhile(d, Take(d, p), {"0", "1", "_"}), did_hex |-> FALSE]
   ELSE IF is_dec(ctx_peek(d, p.c, 0))
   THEN [p |-> TakeWhile(d, Take(d, p),
                         {"0", "1", "2", "3", "4", "5", "6", "7", "_"}),
         did_hex |-> FALSE]
   ELSE [p |-> p, did_hex |-> FALSE]

(* parse_number, the fraction after a decimal point that is not ".." *)
NumberFraction(d, r) ==
   IF ctx_peek(d, r.p.c, 0) = "." /\ ctx_peek(d, r.p.c, 1) # "."
   THEN [p |-> TakeWhile(d, Take(d, r.p),
                         IF r.did_hex
                         THEN {ch \in DecDigits \cup Lower \cup Upper
                                  \cup {"_"} : is_hex_(ch)}
                         ELSE DecDigits \cup {"_"}),
         is_float |-> TRUE]
   ELSE [p |-> r.p, is_float |-> FALSE]

(* parse_number, the exponent *)
NumberExponent(d, r) ==
   LET Sign(p) == IF ctx_peek(d, p.c, 0) \in {"+", "-"} THEN Take(d, p) ELSE p
   IN  IF toupper(ctx_peek(d, r.p.c, 0)) \in {"E", "P"}
       THEN [p |-> TakeWhile(d, Sign(Take(d, r.p)), DecDigits \cup {"_"}),
             is_float |-> TRUE]
       ELSE r

(* parse_number, the suffix letters *)
RECURSIVE NumberSuffix(_, _)
NumberSuffix(d, r) ==
   IF toupper(ctx_peek(d, r.p.c, 0)) \in {"I", "F", "D", "M"}
   THEN NumberSuffix(d, [p |-> Take(d, r.p), is_float |-> TRUE])
   ELSE IF toupper(ctx_peek(d, r.p.c, 0)) \in {"L", "U"}
   THEN NumberSuffix(d, [r EXCEPT !.p = Take(d, r.p)])
   ELSE r

(* parse_number on the pair p; an Objective-C literal hands in "@" *)
parse_number(d, p) ==
   LET Ms64(q) == IF ctx_peek(d, q.c, 0) = "6" /\ ctx_peek(d, q.c, 1) = "4"
                  THEN Take(d, Take(d, q)) ELSE q
       Fin(r, dot) ==
          Parsed(TRUE, parse_suffix(d, Ms64(r.p), FALSE).c,
                 parse_suffix(d, Ms64(r.p), FALSE).str,
                 IF r.is_float \/ dot THEN "NUMBER_FP" ELSE "NUMBER")
       Rest(r, dot) == Fin(NumberSuffix(d, NumberExponent(d, r)), dot)
       Frac(r, dot) ==
          Rest([p |-> NumberFraction(d, r).p,
                is_float |-> NumberFraction(d, r).is_float], dot)
   IN  IF ~is_dec(ctx_peek(d, p.c, 0))
          /\ (ctx_peek(d, p.c, 0) # "." \/ ~is_dec(ctx_peek(d, p.c, 1)))
       THEN Parsed(FALSE, p.c, p.str, "NONE")
       ELSE IF ctx_peek(d, p.c, 0) = "." /\ ctx_peek(d, p.c, 1) = "."
       THEN Parsed(FALSE, p.c, p.str, "NONE")
       ELSE IF ctx_peek(d, p.c, 0) = "0"
       THEN Frac(NumberRadix(d, Take(d, p)), FALSE)
       ELSE Frac([p |-> TakeWhile(d, p, DecDigits \cup {"_"}),
                  did_hex |-> FALSE],
                 ctx_peek(d, p.c, 0) = ".")

(* parse_string, the loop after the opening quote: q is the pair of cursor
   and text, extended with the kind of the chunk *)
RECURSIVE StringFrom(_, _, _, _, _)
StringFrom(d, q, end_ch, escaped, allow_escape) ==
   LET One(ch, q1) ==
          IF ch = "\n"
          THEN StringFrom(d, [q1 EXCEPT !.type = "STRING_MULTI"], end_ch,
                          FALSE, allow_escape)
          ELSE IF ch = "\r" /\ ctx_peek(d, q1.c, 0) # "\n"
          THEN StringFrom(d, [Take(d, q1) EXCEPT !.type = "STRING_MULTI"],
                          end_ch, FALSE, allow_escape)
          ELSE IF escaped
          THEN StringFrom(d, q1, end_ch, FALSE, allow_escape)
          ELSE IF ch = UO_string_escape_char
          THEN StringFrom(d, q1, end_ch, TRUE, allow_escape)
          ELSE IF ch = UO_string_escape_char2
                  /\ ctx_peek(d, q1.c, 0) = end_ch
          THEN StringFrom(d, q1, end_ch, allow_escape, allow_escape)
          ELSE IF ch = end_ch THEN q1
          ELSE StringFrom(d, q1, end_ch, FALSE, allow_escape)
   IN  IF ~ctx_more(d, q.c) THEN q ELSE One(ctx_peek(d, q.c, 0), Take(d, q))

parse_string(d, c, quote_idx, allow_escape) ==
   LET Open(q) ==
          StringFrom(d, Take(d, q), EndCh(ctx_peek(d, q.c, 0)), FALSE,
                     allow_escape)
       Close(q) ==
          Parsed(TRUE, parse_suffix(d, [c |-> q.c, str |-> q.str], TRUE).c,
                 parse_suffix(d, [c |-> q.c, str |-> q.str], TRUE).str,
                 q.type)
   IN  Close(Open(TakeN(d, [c |-> c, str |-> <<>>, type |-> "STRING"],
                        quote_idx)))

(* tag_compare: a_idx and b_idx count from 0, and neither is advanced by
   the loop *)
tag_compare(d, a_idx, b_idx, len) ==
   IF a_idx # b_idx /\ len > 0 THEN d[a_idx + 1] = d[b_idx + 1] ELSE TRUE

(* parse_cr_string, the scan for the terminator *)
RECURSIVE CrStringFrom(_, _, _, _, _)
CrStringFrom(d, c0, q, tag_idx, tag_len) ==
   LET Closed(p) == Parsed(TRUE, p.c, p.str, q.type)
   IN  IF ~ctx_more(d, q.c) THEN Parsed(FALSE, c0, <<>>, "NONE")
       ELSE IF /\ ctx_peek(d, q.c, 0) = ")"
               /\ ctx_peek(d, q.c, tag_len + 1) = "\""
               /\ tag_compare(d, tag_idx, q.c.idx + 1, tag_len)
       THEN Closed(parse_suffix(d, [c   |-> TakeN(d, q, tag_len + 2).c,
                                    str |-> TakeN(d, q, tag_len + 2).str],
                                FALSE))
       ELSE CrStringFrom(d, c0,
                         [Take(d, q) EXCEPT
                            !.type = IF ctx_peek(d, q.c, 0) = "\n"
                                     THEN "STRING_MULTI" ELSE @],
                         tag_idx, tag_len)

(* while (ctx.more() && (ctx.peek() != '(')) pc.str.append(1, ctx.get()) *)
RECURSIVE CrTagFrom(_, _)
CrTagFrom(d, p) ==
   IF ctx_more(d, p.c) /\ ctx_peek(d, p.c, 0) # "("
   THEN CrTagFrom(d, Take(d, p)) ELSE p

parse_cr_string(d, c, q_idx) ==
   LET Scan(p, tagged) ==
          IF ctx_peek(d, tagged.c, 0) # "("
          THEN Parsed(FALSE, c, <<>>, "NONE")
          ELSE CrStringFrom(d, c,
                            [c |-> tagged.c, str |-> tagged.str,
                             type |-> "STRING"],
                            c.idx + q_idx + 1, Len(tagged.str) - Len(p.str))
       Tag(p) == Scan(p, CrTagFrom(d, p))
   IN  Tag(TakeN(d, [c |-> c, str |-> <<>>], q_idx + 1))

(* the keyword table on byte strings.  A preprocessor keyword (FLAG_PP) is
   matched in a directive other than #define, any other keyword outside
   such a directive. *)
find_keyword_bytes(str, in_preproc, L) ==
   LET in_pp == in_preproc \notin {"NONE", "PP_DEFINE"}
   IN  CASE str = <<"d", "e", "f", "i", "n", "e">> /\ in_pp -> "PP_DEFINE"
         [] str = <<"p", "r", "a", "g", "m", "a">> /\ in_pp -> "PP_PRAGMA"
         [] str = <<"i", "n", "t">> /\ ~in_pp              -> "TYPE"
         [] OTHER                                          -> "WORD"

(* the kinds for which parse_next takes the rest of the line as one chunk:
   those after CT_PP_BODYCHUNK up to CT_PP_OTHER in c_token_t *)
PpBodyKinds == {"PP_PRAGMA", "PP_OTHER"}
PpKinds == {"PP_DEFINE", "PP_PRAGMA", "PP_OTHER"}

(* the punctuator table on the next bytes: the longest tag that matches *)
find_punctuator_bytes(c0, c1) ==
   CASE c0 = "+" /\ c1 = "+" -> [n |-> 2, type |-> "INCDEC_AFTER"]
     [] c0 = ":" /\ c1 = ":" -> [n |-> 2, type |-> "DC_MEMBER"]
     [] c0 = "("  -> [n |-> 1, type |-> "PAREN_OPEN"]
     [] c0 = ")"  -> [n |-> 1, type |-> "PAREN_CLOSE"]
     [] c0 = ";"  -> [n |-> 1, type |-> "SEMICOLON"]
     [] c0 = "="  -> [n |-> 1, type |-> "ASSIGN"]
     [] c0 = "#"  -> [n |-> 1, type |-> "POUND"]
     [] c0 = "/"  -> [n |-> 1, type |-> "ARITH"]
     [] c0 = "*"  -> [n |-> 1, type |-> "STAR"]
     [] c0 = "+"  -> [n |-> 1, type |-> "ARITH"]
     [] c0 = "<"  -> [n |-> 1, type |-> "ANGLE_OPEN"]
     [] c0 = ">"  -> [n |-> 1, type |-> "ANGLE_CLOSE"]
     [] c0 = ":"  -> [n |-> 1, type |-> "COLON"]
     [] OTHER     -> [n |-> 0, type |-> "NONE"]

(* parse_word on bytes *)
parse_word_bytes(d, c, skipcheck, ncnl, in_preproc, L) ==
   LET Kind(p, t) ==
          [ok |-> TRUE, c |-> p.c, str |-> p.str, type |-> t,
           flags |-> IF t \in {"WORD", "MACRO", "MACRO_FUNC"} THEN {}
                     ELSE {"KEYWORD"}]
       Word(p) ==
          IF skipcheck \/ \E k \in 2..Len(p.str) : p.str[k] \in HighBytes
          THEN [ok |-> TRUE, c |-> p.c, str |-> p.str, type |-> "WORD",
                flags |-> {}]
          ELSE IF in_preproc = "PP_DEFINE" /\ ncnl = 1
          THEN Kind(p, IF ctx_peek(d, p.c, 0) = "(" THEN "MACRO_FUNC"
                       ELSE "MACRO")
          ELSE Kind(p, find_keyword_bytes(p.str, in_preproc, L))
   IN  Word(TakeWhile(d, Take(d, [c |-> c, str |-> <<>>]),
                      Lower \cup Upper \cup DecDigits \cup HighBytes
                      \cup {"_"}))

(* Faulty variant: backing off an escaped newline without taking the
   backslash out of the text again *)
RECURSIVE PpBodyNoResize(_, _, _, _)
PpBodyNoResize(d, p, ss, last) ==
   IF ~ctx_more(d, p.c) THEN p
   ELSE IF ctx_peek(d, p.c, 0) \in {"\n", "\r"}
   THEN (IF last = "\\" THEN [c |-> ss, str |-> p.str] ELSE p)
   ELSE IF ctx_peek(d, p.c, 0) = "/" /\ ctx_peek(d, p.c, 1) = "/"
   THEN p
   ELSE PpBodyNoResize(d, Take(d, p), p.c, ctx_peek(d, p.c, 0))

(* parse_next, "handle unknown/unhandled preprocessors": the rest of the
   line as one chunk; ss is the cursor saved before the last byte taken *)
RECURSIVE PpBodyFrom(_, _, _, _)
PpBodyFrom(d, p, ss, last) ==
   IF ~ctx_more(d, p.c) THEN p
   ELSE IF ctx_peek(d, p.c, 0) \in {"\n", "\r"}
   THEN (IF last = "\\"
         THEN [c |-> ss, str |-> SubSeq(p.str, 1, Len(p.str) - 1)]
         ELSE p)
   ELSE IF ctx_peek(d, p.c, 0) = "/" /\ ctx_peek(d, p.c, 1) = "/"
   THEN p
   ELSE PpBodyFrom(d, Take(d, p), p.c, ctx_peek(d, p.c, 0))

(* d_parse_string, the escapes that stand for a string: "\x12", "\n" ... *)
RECURSIVE DEscapeFrom(_, _)
DEscapeFrom(d, p) ==
   LET Oct(q) == IF ctx_peek(d, q.c, 0) \in {"0", "1", "2", "3", "4", "5",
                                             "6", "7"}
                 THEN Take(d, q) ELSE q
       Semi(q) == IF ctx_peek(d, q.c, 0) = ";" THEN Take(d, q) ELSE q
       Esc(q) ==
          CASE ctx_peek(d, q.c, 0) = "x" -> TakeN(d, q, 3)
            [] ctx_peek(d, q.c, 0) = "u" -> TakeN(d, q, 5)
            [] ctx_peek(d, q.c, 0) = "U" -> TakeN(d, q, 9)
            [] ctx_peek(d, q.c, 0) \in {"0", "1", "2", "3", "4", "5", "6", "7"}
                 -> (IF ctx_peek(d, q.c, 1) \in {"0", "1", "2", "3", "4", "5",
                                                 "6", "7"}
                     THEN Oct(TakeN(d, q, 2)) ELSE Take(d, q))
            [] ctx_peek(d, q.c, 0) = "&"
                 -> Semi(TakeWhile(d, Take(d, q), Lower \cup Upper))
            [] OTHER -> Take(d, q)
   IN  IF ctx_peek(d, p.c, 0) = "\\"
       THEN DEscapeFrom(d, Esc(Take(d, p))) ELSE p

d_parse_string(d, c) ==
   LET Esc(p) == IF Len(p.str) > 1 THEN Parsed(TRUE, p.c, p.str, "STRING")
                 ELSE Parsed(FALSE, c, <<>>, "NONE")
   IN  IF ctx_peek(d, c, 0) \in {"\"", "'", "BACKQUOTE"}
       THEN parse_string(d, c, 0, TRUE)
       ELSE IF ctx_peek(d, c, 0) = "\\"
       THEN Esc(DEscapeFrom(d, [c |-> c, str |-> <<>>]))
       ELSE IF ctx_peek(d, c, 0) \in {"r", "x"} /\ ctx_peek(d, c, 1) = "\""
       THEN parse_string(d, c, 1, FALSE)
       ELSE Parsed(FALSE, c, <<>>, "NONE")

(* parse_next, "handle C++0x strings": the length of the prefix before the
   quote and whether an R is part of it *)
CppStringPrefix(d, c) ==
   LET Real(idx) ==
          IF ctx_peek(d, c, idx) = "R"
          THEN [idx |-> idx + 1, is_real |-> TRUE]
          ELSE [idx |-> idx, is_real |-> FALSE]
   IN  Real(IF ctx_peek(d, c, 0) = "u" /\ ctx_peek(d, c, 1) = "8" THEN 2
            ELSE IF ctx_peek(d, c, 0) \in {"u", "U"} THEN 1
            ELSE 0)

(* parse_next on bytes: the chunk it fills in and the cursor after it.
   tail_type is the kind of the last chunk of the list.  The branches for
   C#, Pawn, Java and Objective-C are left out: their language flags are
   never set here. *)
parse_next_bytes(d, c, ncnl, in_preproc, L, tail_type) ==
   LET Out(r, flags) ==
          [c |-> r.c, str |-> r.str, type |-> r.type, flags |-> flags,
           orig_line |-> c.row, orig_col |-> c.col]
       Garbage ==
          Out(Parsed(TRUE, ctx_get(d, c), <<ctx_peek(d, c, 0)>>, "UNKNOWN"),
              {})
       Punct(pu) ==
          IF pu.n = 0 THEN Garbage
          ELSE Out(Parsed(TRUE, TakeN(d, [c |-> c, str |-> <<>>], pu.n).c,
                          TakeN(d, [c |-> c, str |-> <<>>], pu.n).str,
                          pu.type),
                   {"PUNCTUATOR"})
       Word(w) == Out(w, w.flags)
       Ident ==
          IF IsKw1(ctx_peek(d, c, 0))
          THEN Word(parse_word_bytes(d, c, FALSE, ncnl, in_preproc, L))
          ELSE Punct(find_punctuator_bytes(ctx_peek(d, c, 0),
                                           ctx_peek(d, c, 1)))
       DString(r) == IF r.ok THEN Out(r, {}) ELSE Ident
       Strings ==
          IF "D" \in L THEN DString(d_parse_string(d, c))
          ELSE IF \/ (ctx_peek(d, c, 0) \in {"L", "S"}
                      /\ ctx_peek(d, c, 1) \in {"\"", "'"})
                  \/ ctx_peek(d, c, 0) \in {"\"", "'"}
                  \/ (ctx_peek(d, c, 0) = "<" /\ in_preproc = "PP_INCLUDE")
          THEN Out(parse_string(d, c,
                                IF isalpha(ctx_peek(d, c, 0)) THEN 1 ELSE 0,
                                TRUE), {})
          ELSE IF ctx_peek(d, c, 0) = "<" /\ in_preproc = "PP_DEFINE"
                  /\ tail_type = "MACRO"
          THEN Out(parse_string(d, c, 0, FALSE), {})
          ELSE Ident
       Number(r) == IF r.ok THEN Out(r, {}) ELSE Strings
       Numbers == Number(parse_number(d, [c |-> c, str |-> <<>>]))
       Again(r) ==
          Out(Parsed(TRUE,
                     parse_suffix(d, [c |-> r.c, str |-> r.str], TRUE).c,
                     parse_suffix(d, [c |-> r.c, str |-> r.str], TRUE).str,
                     r.type), {})
       Raw(r) == IF r.ok THEN Out(r, {}) ELSE Numbers
       CppString(pf) ==
          IF ctx_peek(d, c, pf.idx) # "\"" THEN Numbers
          ELSE IF pf.is_real THEN Raw(parse_cr_string(d, c, pf.idx))
          ELSE Again(parse_string(d, c, pf.idx, TRUE))
       CppStrings ==
          IF "CPP" \in L /\ ctx_peek(d, c, 0) \in {"u", "U", "R"}
          THEN CppString(CppStringPrefix(d, c))
          ELSE Numbers
       Comment(r) == IF r.ok THEN Out(r, {}) ELSE CppStrings
       Comments == Comment(parse_comment(d, c, L))
       BsNewline(r) == IF r.ok THEN Out(r, {}) ELSE Comments
       BsNewlines ==
          IF ctx_peek(d, c, 0) = "\\" THEN BsNewline(parse_bs_newline(d, c))
          ELSE Comments
       Body(p) ==
          IF Len(p.str) > 0
          THEN Out(Parsed(TRUE, p.c, p.str, "PREPROC_BODY"), {})
          ELSE BsNewlines
       Bodies_ ==
          IF in_preproc \in PpBodyKinds
          THEN Body(PpBodyFrom(d, [c |-> c, str |-> <<>>], c, "NUL"))
          ELSE BsNewlines
       Whitespace(r) == IF r.ok THEN Out(r, {}) ELSE Bodies_
   IN  Whitespace(parse_whitespace(d, c))

(* "strip trailing whitespace" of tokenize() *)
RECURSIVE StripTrailing(_)
StripTrailing(str) ==
   IF Len(str) > 0 /\ str[Len(str)] \in {" ", "\t"}
   THEN StripTrailing(SubSeq(str, 1, Len(str) - 1))
   ELSE str

(* the chunk tokenize() adds for what parse_next filled in *)
lex_chunk(r, type, flags, col_end) ==
   [type         |-> type,
    str          |-> StripTrailing(IF r.type = "NL_CONT"
                                   THEN <<"\\", "\n">> ELSE r.str),
    flags        |-> flags,
    orig_line    |-> r.orig_line,
    orig_col     |-> r.orig_col,
    orig_col_end |-> col_end]

(* Faulty variant: a newline that does not end the preprocessor line *)
PreprocKept(type, in_preproc) == in_preproc

(* "a newline marks the end of a preprocessor": in_preproc once the chunk
   of kind type is in the list *)
PreprocAfterNewline(type, in_preproc) ==
   IF type = "NEWLINE" THEN "NONE" ELSE in_preproc

(* one iteration of the loop of tokenize() on the lexer state t, r being
   what parse_next handed back.  spans records, for every iteration, the
   bytes the cursor moved over and whether a chunk was added. *)
tokenize_add(t, r) ==
   LET rprev == IF Len(t.list) = 0 THEN "NONE" ELSE t.list[Len(t.list)].type
       Prev(list) ==
          IF Len(list) > 0 /\ list[Len(list)].type = "NEWLINE"
          THEN [list EXCEPT ![Len(list)].flags = @ \ {"IN_PREPROC"}]
          ELSE list
       inpp == PreprocAfterNewline(r.type, t.in_preproc)
       start == inpp = "NONE" /\ r.type = "POUND"
                /\ rprev \in {"NONE", "NEWLINE"}
       type == IF inpp = "PREPROC"
               THEN (IF r.type \in PpKinds THEN r.type ELSE "PP_OTHER")
               ELSE IF start THEN "PREPROC" ELSE r.type
       flags == r.flags \cup (IF inpp # "NONE" \/ start
                              THEN {"IN_PREPROC"} ELSE {})
   IN  IF r.type = "WHITESPACE"
       THEN [t EXCEPT !.c = r.c,
                      !.spans = Append(@, [from |-> t.c.idx, to |-> r.c.idx,
                                           kept |-> FALSE])]
       ELSE [t EXCEPT
               !.c = r.c,
               !.list = Append(Prev(@), lex_chunk(r, type, flags, r.c.col)),
               !.spans = Append(@, [from |-> t.c.idx, to |-> r.c.idx,
                                    kept |-> TRUE]),
               !.ncnl = IF r.type = "NEWLINE" THEN 0
                        ELSE IF inpp # "NONE" /\ r.type # "NL_CONT"
                        THEN @ + 1 ELSE @,
               !.in_preproc = IF start THEN "PREPROC"
                              ELSE IF inpp = "PREPROC" THEN type ELSE inpp]

(***************************************************************************)
(* The lexer as a state machine.  tk is the state of one run of tokenize() *)
(* over a byte buffer: the buffer, the cursor, the list built so far and   *)
(* the two locals in_preproc and preproc_ncnl_count.  parts (the pieces    *)
(* the buffer was put together from) and spans (the bytes each iteration   *)
(* of the loop moved over) are kept for the properties only.               *)
(***************************************************************************)
RECURSIVE Flatten(_)
Flatten(parts) ==
   IF parts = <<>> THEN <<>>
   ELSE Head(parts) \o Flatten(Tail(parts))

Tails(P) == UNION {[1..k -> P] : k \in 0..MaxParts}

(* preprocessor lines *)
PpHeads == {<<>>,
            <<"#", "d", "e", "f", "i", "n", "e", " ">>,
            <<"#", "p", "r", "a", "g", "m", "a", " ">>}
PpPieces == {<<"a">>, <<"(">>, <<" ">>, <<"\\", "\n">>, <<"\n">>, <<"#">>,
             <<"i", "n", "t">>, <<"a", "xC3", "x80">>, <<"\n", "a">>}
PpInputs == {[lang |-> {"C"}, parts |-> <<h>> \o t] :
               h \in PpHeads, t \in Tails(PpPieces)}

(* blanks, tabs, multi-byte characters, comments and strings *)
ColPieces == {<<"a">>, <<"\t">>, <<" ">>, <<"xC3", "x80">>, <<"\n">>,
              <<"/", "*", "c", "*", "/">>, <<"\"", "s", "\"">>,
              <<"/", "/", "c", " ">>, <<"1", "2">>}
ColInputs == {[lang |-> {"C"}, parts |-> t] : t \in Tails(ColPieces)}

(* C++ raw strings *)
RawHeads == {<<"R", "\"">>, <<"u", "8", "R", "\"">>}
RawTags == {<<>>, <<"a">>, <<"a", "b">>}
RawPieces == {<<"x">>, <<")">>, <<"\"">>, <<")", "\"">>, <<")", "a", "\"">>,
              <<")", "a", "b", "\"">>, <<")", "a", "c", "\"">>}
RawInputs == {[lang |-> {"C", "CPP"}, parts |-> <<h, g, <<"(">> >> \o t] :
                h \in RawHeads, g \in RawTags, t \in Tails(RawPieces)}

(* D nesting comments, with and without the D flag *)
DPieces == {<<"/", "+">>, <<"+", "/">>, <<"a">>, <<" ">>}
DInputs == {[lang |-> L, parts |-> <<<<"/", "+">>>> \o t \o <<<<";">>>>] :
              L \in {{"D"}, {"C"}}, t \in Tails(DPieces)}

(* string literals followed by an identifier *)
SuffixHeads == {<<"\"", "s", "\"">>, <<"L", "\"", "s", "\"">>,
                <<"'", "c", "'">>, <<"u", "\"", "s", "\"">>}
SuffixPieces == {<<"P", "R", "I">>, <<"S", "C", "N">>, <<"x">>,
                 <<"a", "b", "c", "d">>, <<" ">>, <<"L">>,
                 <<"\"", "s", "\"">>}
SuffixInputs == {[lang |-> L, parts |-> <<h>> \o t] :
                   L \in {{"C"}, {"C", "CPP"}}, h \in SuffixHeads,
                   t \in Tails(SuffixPieces)}

(* bytes no token rule takes, and strings the input ends in *)
ErrPieces == {<<"\\">>, <<"\"">>, <<"\"", "s">>, <<"'">>, <<"a">>, <<" ">>,
              <<"\n">>}
ErrInputs == {[lang |-> {"C"}, parts |-> t] : t \in Tails(ErrPieces)}

(* D strings and escape sequences, cut short by the end of the input *)
DStrPieces == {<<"\\">>, <<"\\", "x">>, <<"\\", "&", "a">>, <<"r", "\"">>,
               <<"\"">>, <<"a">>, <<";">>}
DStrInputs == {[lang |-> {"D"}, parts |-> t] : t \in Tails(DStrPieces)}

LexInputs == PpInputs \cup ColInputs \cup RawInputs \cup DInputs
             \cup SuffixInputs \cup ErrInputs \cup DStrInputs

LexStart(i) ==
   [data       |-> Flatten(i.parts),
    lang       |-> i.lang,
    parts      |-> i.parts,
    c          |-> tok_info,
    list       |-> <<>>,
    spans      |-> <<>>,
    in_preproc |-> "NONE",
    ncnl       |-> 0]

LexInit ==
   /\ tk \in {LexStart(i) : i \in LexInputs}
   /\ chunks = <<>>
   /\ lang = {}
   /\ stage = "lex"
   /\ cur = NULL
   /\ sqlvl = -1
   /\ out = <<>>
   /\ lbl = <<>>

(* one iteration of the while loop of tokenize() *)
TokenizeStep ==
   /\ ctx_more(tk.data, tk.c)
   /\ tk' = tokenize_add(tk,
               parse_next_bytes(tk.data, tk.c, tk.ncnl, tk.in_preproc,
                  tk.lang,
                  IF Len(tk.list) = 0 THEN "NONE"
                  ELSE tk.list[Len(tk.list)].type))
   /\ UNCHANGED <<chunks, lang, stage, cur, sqlvl, out, lbl>>

LexNext == TokenizeStep

LexSpec == LexInit /\ [][LexNext]_vars

(* tokenize() has returned *)
LexDone == ~ctx_more(tk.data, tk.c)

(***************************************************************************)
(* Properties of the pipeline.  They are read off the final state (stage   *)
(* "done"): chunks is the re-labelled, scoped list and out the records.    *)
(***************************************************************************)
Least(S) == CHOOSE x \in S : \A y \in S : x <= y

(* the records emitted for chunk i *)
Records(i) == {k \in 1..Len(out) : out[k].idx = i}

(* chunk i gave exactly one record, of kind t and sub-kind st *)
EmittedAs(i, t, st) ==
   /\ Cardinality(Records(i)) = 1
   /\ \A k \in Records(i) : out[k].type = t /\ out[k].sub_type = st

(* the close paren or brace that matches the open one at j *)
Match(j) ==
   Least({k \in (j + 1)..Len(chunks) :
             /\ chunks[k].level = chunks[j].level
             /\ chunks[k].type = CloseOf(chunks[j].type)})

(* the lexeme of the first chunk after j that is not a newline *)
LexemeAfter(j) ==
   IF \E k \in (j + 1)..Len(chunks) : chunks[k].type # "NEWLINE"
   THEN chunks[Least({k \in (j + 1)..Len(chunks) :
                         chunks[k].type # "NEWLINE"})].str
   ELSE ""

(* chunk i is an identifier directly followed by a parenthesised list and
   directly preceded by a type word *)
NameOfParenList(i) ==
   /\ chunks[i].str \in Idents
   /\ 1 < i /\ i < Len(chunks)
   /\ chunks[i + 1].str = "("
   /\ chunks[i - 1].type = "TYPE"

(* chunk i is the f of "x = f(...)" inside a function body *)
CallInBody(i) ==
   /\ chunks[i].str \in Idents
   /\ 1 < i /\ i < Len(chunks)
   /\ chunks[i].brace_level > 0
   /\ chunks[i + 1].str = "("
   /\ chunks[i - 1].str = "="

(* C1 as written in the specification: in C, at brace level 0, a name
   between a type word and a parenthesised list is a FUNC_PROTO, emitted
   as FUNCTION DECLARATION with scope <global>, when a semicolon follows
   the close paren, and a FUNC_DEF, emitted as FUNCTION DEFINITION with
   scope <global>, when an open brace follows; the f of "x = f();" in a
   function body stays FUNC_CALL and is emitted as FUNCTION REFERENCE. *)
C1_AsWritten ==
   (stage = "done" /\ lang = {"C"}) =>
      \A i \in 1..Len(chunks) :
         /\ (NameOfParenList(i) /\ chunks[i].brace_level = 0
             /\ LexemeAfter(Match(i + 1)) = ";")
            => /\ chunks[i].type = "FUNC_PROTO"
               /\ EmittedAs(i, "FUNCTION", "DECLARATION")
               /\ \A k \in Records(i) : out[k].scope = <<"<global>">>
         /\ (NameOfParenList(i) /\ chunks[i].brace_level = 0
             /\ LexemeAfter(Match(i + 1)) = "{")
            => /\ chunks[i].type = "FUNC_DEF"
               /\ EmittedAs(i, "FUNCTION", "DEFINITION")
               /\ \A k \in Records(i) : out[k].scope = <<"<global>">>
         /\ CallInBody(i)
            => /\ chunks[i].type = "FUNC_CALL"
               /\ EmittedAs(i, "FUNCTION", "REFERENCE")

(* the scope of a name at brace level 0 that no named scope encloses *)
FileScope(i) ==
   IF i > 2 /\ chunks[i - 2].str = "static" THEN <<"<local>">>
   ELSE <<"<global>">>

(* C1, amended: the same outside a typedef, with scope <local> instead of
   <global> when the declaration starts with static.  A name inside a
   typedef is a FUNC_TYPE, emitted as FUNCTION_TYPE DEFINITION. *)
C1_FunctionKinds ==
   (stage = "done" /\ lang = {"C"}) =>
      \A i \in 1..Len(chunks) :
         /\ (NameOfParenList(i) /\ chunks[i].brace_level = 0
             /\ LexemeAfter(Match(i + 1)) = ";")
            => IF chunks[1].str = "typedef"
               THEN /\ chunks[i].type = "FUNC_TYPE"
                    /\ EmittedAs(i, "FUNCTION_TYPE", "DEFINITION")
               ELSE /\ chunks[i].type = "FUNC_PROTO"
                    /\ EmittedAs(i, "FUNCTION", "DECLARATION")
                    /\ \A k \in Records(i) : out[k].scope = FileScope(i)
         /\ (NameOfParenList(i) /\ chunks[i].brace_level = 0
             /\ LexemeAfter(Match(i + 1)) = "{")
            => /\ chunks[i].type = "FUNC_DEF"
               /\ EmittedAs(i, "FUNCTION", "DEFINITION")
               /\ \A k \in Records(i) : out[k].scope = FileScope(i)
         /\ CallInBody(i)
            => /\ chunks[i].type = "FUNC_CALL"
               /\ EmittedAs(i, "FUNCTION", "REFERENCE")

(* a C file whose function definition holds the call "x = f();" is
   through the pipeline *)
C1_Witness ==
   /\ stage = "done" /\ lang = {"C"}
   /\ \E i \in 1..Len(chunks) :
         /\ NameOfParenList(i) /\ chunks[i].brace_level = 0
         /\ LexemeAfter(Match(i + 1)) = "{"
         /\ chunks[i].type = "FUNC_DEF"
   /\ \E i \in 1..Len(chunks) : CallInBody(i) /\ chunks[i].type = "FUNC_CALL"
   /\ \E k \in 1..Len(out) : out[k].sub_type = "REFERENCE"

(* the scope sc ends in the component name+deco *)
EndsIn(sc, name, deco) ==
   Len(sc) >= 2 /\ sc[Len(sc) - 1] = name /\ sc[Len(sc)] = deco

(* the scope sc has the component name+deco somewhere *)
HasComponent(sc, name, deco) ==
   \E k \in 1..(Len(sc) - 1) : sc[k] = name /\ sc[k + 1] = deco

(* chunk j is neither punctuator nor keyword *)
Named(j) == chunks[j].flags \cap {"PUNCTUATOR", "KEYWORD"} = {}

(* chunk j lies in the body of a struct, union, enum or class that opens
   after chunk bo *)
InTaggedBody(bo, j) ==
   \E o \in (bo + 1)..(j - 1) :
      /\ chunks[o].str = "{"
      /\ chunks[o - 2].str \in {"struct", "union", "enum", "class"}
      /\ j < Match(o)

(* the parameter parens of chunk i are followed by a body in braces *)
HasBody(i) ==
   /\ Match(i + 1) + 1 <= Len(chunks)
   /\ chunks[Match(i + 1) + 1].type = "BRACE_OPEN"
   /\ \E k \in (Match(i + 1) + 2)..Len(chunks) :
         /\ chunks[k].level = chunks[Match(i + 1) + 1].level
         /\ chunks[k].type = "BRACE_CLOSE"

(* chunk j is part of a preprocessor directive *)
InDirective(j) == "IN_PREPROC" \in chunks[j].flags

(* C2 as written in the specification: for a function definition f, every
   chunk that is neither punctuator nor keyword has a scope ending in f()
   between the parameter parens, a scope ending in f{} inside the body at
   any depth, and no scope of f after the close brace of the body. *)
C2_AsWritten ==
   stage = "done" =>
      \A i \in 1..Len(chunks) :
         chunks[i].type = "FUNC_DEF" =>
            \A j \in 1..Len(chunks) :
               Named(j) =>
                  /\ (i + 1 < j /\ j < Match(i + 1))
                     => EndsIn(chunks[j].scope, chunks[i].str, "()")
                  /\ (HasBody(i) /\ Match(i + 1) + 1 < j
                      /\ j < Match(Match(i + 1) + 1))
                     => EndsIn(chunks[j].scope, chunks[i].str, "{}")
                  /\ (HasBody(i) /\ j > Match(Match(i + 1) + 1))
                     => /\ ~HasComponent(chunks[j].scope, chunks[i].str, "()")
                        /\ ~HasComponent(chunks[j].scope, chunks[i].str, "{}")

(* C2, amended: inside the body the scope has the component f{}; it ends
   in f{} unless the chunk lies in the body of a nested struct, union,
   enum or class.  The chunks of a preprocessor directive inside the body
   get no scope of f. *)
C2_FunctionScopes ==
   stage = "done" =>
      \A i \in 1..Len(chunks) :
         chunks[i].type = "FUNC_DEF" =>
            \A j \in 1..Len(chunks) :
               Named(j) =>
                  /\ (i + 1 < j /\ j < Match(i + 1))
                     => EndsIn(chunks[j].scope, chunks[i].str, "()")
                  /\ (HasBody(i) /\ Match(i + 1) + 1 < j
                      /\ j < Match(Match(i + 1) + 1))
                     => IF InDirective(j)
                        THEN ~HasComponent(chunks[j].scope, chunks[i].str,
                                           "{}")
                        ELSE /\ HasComponent(chunks[j].scope, chunks[i].str,
                                             "{}")
                             /\ \/ InTaggedBody(Match(i + 1) + 1, j)
                                \/ EndsIn(chunks[j].scope, chunks[i].str,
                                          "{}")
                  /\ (HasBody(i) /\ j > Match(Match(i + 1) + 1))
                     => /\ ~HasComponent(chunks[j].scope, chunks[i].str, "()")
                        /\ ~HasComponent(chunks[j].scope, chunks[i].str, "{}")

(* a function definition with a parameter, a struct in its body and a
   declaration after it is through the pipeline *)
C2_Witness ==
   /\ stage = "done"
   /\ \E i \in 1..Len(chunks) :
         /\ chunks[i].type = "FUNC_DEF"
         /\ HasBody(i)
         /\ \E j \in (i + 2)..(Match(i + 1) - 1) :
               Named(j) /\ EndsIn(chunks[j].scope, chunks[i].str, "()")
         /\ \E j \in (Match(i + 1) + 2)..(Match(Match(i + 1) + 1) - 1) :
               /\ Named(j) /\ InTaggedBody(Match(i + 1) + 1, j)
               /\ HasComponent(chunks[j].scope, chunks[i].str, "{}")
         /\ \E j \in (Match(Match(i + 1) + 1) + 1)..Len(chunks) : Named(j)

(* the sub-kind the DEF, PROTO or REF flag of a chunk stands for *)
FlagSubKind(c) ==
   IF "DEF" \in c.flags THEN "DEFINITION"
   ELSE IF "PROTO" \in c.flags THEN "DECLARATION"
   ELSE "REFERENCE"

(* C3 as written in the specification: output() gives exactly one record
   for every function-like chunk that is not a punctuator: FUNCTION
   DEFINITION for FUNC_DEF, FUNCTION DECLARATION for FUNC_PROTO, FUNCTION
   REFERENCE for FUNC_CALL and FUNC_CALL_USER, FUNCTION_TYPE DEFINITION
   for FUNC_TYPE and VAR REFERENCE for FUNC_CTOR_VAR. *)
C3_AsWritten ==
   stage = "done" =>
      \A i \in 1..Len(chunks) :
         "PUNCTUATOR" \notin chunks[i].flags =>
            /\ chunks[i].type = "FUNC_DEF"
               => EmittedAs(i, "FUNCTION", "DEFINITION")
            /\ chunks[i].type = "FUNC_PROTO"
               => EmittedAs(i, "FUNCTION", "DECLARATION")
            /\ chunks[i].type \in {"FUNC_CALL", "FUNC_CALL_USER"}
               => EmittedAs(i, "FUNCTION", "REFERENCE")
            /\ chunks[i].type = "FUNC_TYPE"
               => EmittedAs(i, "FUNCTION_TYPE", "DEFINITION")
            /\ chunks[i].type = "FUNC_CTOR_VAR"
               => EmittedAs(i, "VAR", "REFERENCE")

(* C4 as written in the specification: a FUNC_CLASS chunk, a TYPE chunk
   whose parent is STRUCT, UNION, ENUM or CLASS, and a WORD chunk whose
   parent is NAMESPACE are emitted as FUNCTION, as the parent kind, and as
   NAMESPACE, with the sub-kind of their DEF, PROTO or REF flag. *)
C4_AsWritten ==
   stage = "done" =>
      \A i \in 1..Len(chunks) :
         (/\ chunks[i].flags \cap {"PUNCTUATOR", "KEYWORD"} = {}
          /\ chunks[i].flags \cap {"DEF", "PROTO", "REF"} # {}) =>
            /\ chunks[i].type = "FUNC_CLASS"
               => EmittedAs(i, "FUNCTION", FlagSubKind(chunks[i]))
            /\ (/\ chunks[i].type = "TYPE"
                /\ chunks[i].parent_type \in {"STRUCT", "UNION", "ENUM",
                                              "CLASS"})
               => EmittedAs(i, chunks[i].parent_type, FlagSubKind(chunks[i]))
            /\ (chunks[i].type = "WORD" /\ chunks[i].parent_type = "NAMESPACE")
               => EmittedAs(i, "NAMESPACE", FlagSubKind(chunks[i]))

(* C5 as written in the specification: a FUNC_VAR or WORD chunk whose
   parent is NONE is emitted as ENUM_VAL DEFINITION when it has IN_ENUM,
   else VAR DEFINITION when it has VAR_DEF, else VAR DECLARATION when it
   has VAR_DECL, else IDENTIFIER REFERENCE. *)
C5_AsWritten ==
   stage = "done" =>
      \A i \in 1..Len(chunks) :
         (/\ chunks[i].type \in {"FUNC_VAR", "WORD"}
          /\ chunks[i].parent_type = "NONE"
          /\ chunks[i].flags \cap {"PUNCTUATOR", "KEYWORD"} = {}) =>
            IF "IN_ENUM" \in chunks[i].flags
            THEN EmittedAs(i, "ENUM_VAL", "DEFINITION")
            ELSE IF "VAR_DEF" \in chunks[i].flags
            THEN EmittedAs(i, "VAR", "DEFINITION")
            ELSE IF "VAR_DECL" \in chunks[i].flags
            THEN EmittedAs(i, "VAR", "DECLARATION")
            ELSE EmittedAs(i, "IDENTIFIER", "REFERENCE")

(* C6: a TYPE chunk whose parent is TYPEDEF is emitted as STRUCT_TYPE,
   UNION_TYPE or ENUM_TYPE by its TYPEDEF_STRUCT, TYPEDEF_UNION or
   TYPEDEF_ENUM flag, as TYPE without one, always with DEFINITION; a TYPE
   chunk whose parent is none of TYPEDEF, STRUCT, UNION, ENUM and CLASS is
   emitted as TYPE REFERENCE.  The chunks are those the keyword and
   punctuator filter lets through. *)
C6_TypeRecords ==
   stage = "done" =>
      \A i \in 1..Len(chunks) :
         (chunks[i].type = "TYPE" /\ Named(i)) =>
            /\ chunks[i].parent_type = "TYPEDEF"
               => EmittedAs(i,
                     IF "TYPEDEF_STRUCT" \in chunks[i].flags
                     THEN "STRUCT_TYPE"
                     ELSE IF "TYPEDEF_UNION" \in chunks[i].flags
                     THEN "UNION_TYPE"
                     ELSE IF "TYPEDEF_ENUM" \in chunks[i].flags
                     THEN "ENUM_TYPE"
                     ELSE "TYPE",
                     "DEFINITION")
            /\ chunks[i].parent_type \notin {"TYPEDEF", "STRUCT", "UNION",
                                             "ENUM", "CLASS"}
               => EmittedAs(i, "TYPE", "REFERENCE")

(* a typedef of a struct whose member has a named type is through the
   pipeline: the alias and the type of the member have their records *)
C6_Witness ==
   /\ stage = "done"
   /\ \E i \in 1..Len(chunks) :
         /\ chunks[i].type = "TYPE" /\ chunks[i].parent_type = "TYPEDEF"
         /\ "TYPEDEF_STRUCT" \in chunks[i].flags
         /\ EmittedAs(i, "STRUCT_TYPE", "DEFINITION")
   /\ \E i \in 1..Len(chunks) :
         /\ chunks[i].type = "TYPE" /\ chunks[i].parent_type = "NONE"
         /\ EmittedAs(i, "TYPE", "REFERENCE")

(* C7 as written in the specification: no record is emitted for a chunk
   that has the KEYWORD or the PUNCTUATOR flag, whatever its kind. *)
C7_AsWritten ==
   \A k \in 1..Len(out) :
      chunks[out[k].idx].flags \cap {"KEYWORD", "PUNCTUATOR"} = {}

DefaultTags == {<<"<local>">>, <<"<preproc>">>, <<"<global>">>}

(* C8, the scopes: once assign_scope has run, every chunk that is neither
   punctuator nor keyword has a scope; a chunk whose scope is a default
   tag has <local> if it is STATIC, else <preproc> if it is IN_PREPROC,
   else <global>, and STATIC wins over IN_PREPROC. *)
C8_ScopesSet ==
   /\ stage \in {"output", "done"}
      => \A i \in 1..Len(chunks) : Named(i) => chunks[i].scope # <<>>
   /\ \A i \in 1..Len(chunks) :
         (Named(i) /\ chunks[i].scope \in DefaultTags) =>
            chunks[i].scope =
               IF "STATIC" \in chunks[i].flags THEN <<"<local>">>
               ELSE IF "IN_PREPROC" \in chunks[i].flags THEN <<"<preproc>">>
               ELSE <<"<global>">>
   /\ DefaultScope([flags |-> {"STATIC", "IN_PREPROC"}]) = <<"<local>">>

(* C8: the scopes as above, and no step changes the scope of a chunk that
   holds a default tag. *)
C8_DefaultScopes ==
   /\ []C8_ScopesSet
   /\ [][\A i \in 1..Len(chunks) :
            chunks[i].scope \in DefaultTags
               => chunks'[i].scope = chunks[i].scope]_vars

(* a file with a static variable, a macro and a plain variable is through
   the pipeline, with all three default tags *)
C8_Witness ==
   /\ stage = "done"
   /\ \E i \in 1..Len(chunks) :
         "STATIC" \in chunks[i].flags /\ chunks[i].scope = <<"<local>">>
   /\ \E i \in 1..Len(chunks) :
         "IN_PREPROC" \in chunks[i].flags /\ chunks[i].scope = <<"<preproc>">>
   /\ \E i \in 1..Len(chunks) :
         chunks[i].type = "WORD" /\ chunks[i].scope = <<"<global>">>

(* the lexemes of the file *)
Lexemes == [k \in 1..Len(chunks) |-> chunks[k].str]

NamespaceProgram ==
   <<"namespace", "N", "{", "class", "C", "{", "void", "m", "(", ")", ";",
     "}", ";", "}", "void", "N", "::", "C", "::", "m", "(", ")", "{", "}">>

(* chunk i of kind t has its one record, with scope sc *)
EmittedIn(i, t, sc) ==
   /\ chunks[i].type = t
   /\ Cardinality(Records(i)) = 1
   /\ \A k \in Records(i) : out[k].scope = sc

(* C9 as written in the specification: for the program
   "namespace N { class C { void m(); }; } void N::C::m() {}" the record
   NAMESPACE DEFINITION N is emitted, class C has the scope N, the
   prototype m in the class the scope N:C() and the definition m outside
   the class the scope N:C{}. *)
C9_AsWritten ==
   (stage = "done" /\ Lexemes = NamespaceProgram) =>
      /\ EmittedAs(2, "NAMESPACE", "DEFINITION")
      /\ EmittedIn(5, "TYPE", <<"N">>)
      /\ EmittedIn(8, "FUNC_PROTO", <<"N", ":", "C", "()">>)
      /\ EmittedIn(20, "FUNC_DEF", <<"N", ":", "C", "{}">>)

TypedefProgram(k, m) ==
   <<"typedef", k, "foo", "{">> \o m \o <<"}", "foo_t", ";">>

(* the typedefs of tag kind k; an enum body is also written with bare
   enumerators *)
TypedefPrograms(k) ==
   {TypedefProgram(k, <<"int", "a", ";">>)}
   \cup (IF k = "enum" THEN {TypedefProgram(k, <<"a">>)} ELSE {})

(* the chunk whose lexeme is s *)
ChunkOf(s) == Least({i \in 1..Len(chunks) : chunks[i].str = s})

(* the kind, parent kind, alias flag and alias record kind for a tag *)
TagKinds(k) ==
   IF k = "struct" THEN <<"STRUCT", "TYPEDEF_STRUCT", "STRUCT_TYPE">>
   ELSE IF k = "union" THEN <<"UNION", "TYPEDEF_UNION", "UNION_TYPE">>
   ELSE <<"ENUM", "TYPEDEF_ENUM", "ENUM_TYPE">>

(* the tag foo and the alias foo_t of a typedef of tag kind k *)
TagAndAlias(k) ==
   /\ chunks[ChunkOf("foo")].type = "TYPE"
   /\ chunks[ChunkOf("foo")].parent_type = TagKinds(k)[1]
   /\ "DEF" \in chunks[ChunkOf("foo")].flags
   /\ EmittedAs(ChunkOf("foo"), TagKinds(k)[1], "DEFINITION")
   /\ chunks[ChunkOf("foo_t")].type = "TYPE"
   /\ chunks[ChunkOf("foo_t")].parent_type = "TYPEDEF"
   /\ TagKinds(k)[2] \in chunks[ChunkOf("foo_t")].flags
   /\ EmittedAs(ChunkOf("foo_t"), TagKinds(k)[3], "DEFINITION")

(* the member a is a variable definition in the scope foo *)
MemberIsVar ==
   /\ "VAR_DEF" \in chunks[ChunkOf("a")].flags
   /\ chunks[ChunkOf("a")].scope = <<"foo">>
   /\ EmittedAs(ChunkOf("a"), "VAR", "DEFINITION")
   /\ \A r \in Records(ChunkOf("a")) : out[r].scope = <<"foo">>

(* the member a is an enumerator in the scope foo *)
MemberIsEnumVal ==
   /\ "IN_ENUM" \in chunks[ChunkOf("a")].flags
   /\ "VAR_DEF" \notin chunks[ChunkOf("a")].flags
   /\ chunks[ChunkOf("a")].scope = <<"foo">>
   /\ EmittedAs(ChunkOf("a"), "ENUM_VAL", "DEFINITION")
   /\ \A r \in Records(ChunkOf("a")) : out[r].scope = <<"foo">>

(* C10 as written in the specification: for
   "typedef struct foo { int a; } foo_t;" the tag foo is a TYPE with
   parent STRUCT and DEF, the member a is VAR_DEF with scope foo, the
   alias foo_t is a TYPE with parent TYPEDEF and TYPEDEF_STRUCT, and the
   records STRUCT DEFINITION foo, VAR DEFINITION a and STRUCT_TYPE
   DEFINITION foo_t are emitted; the same with union or enum in place of
   struct. *)
C10_AsWritten ==
   \A k \in {"struct", "union", "enum"} :
      (/\ stage = "done"
       /\ Lexemes \in TypedefPrograms(k))
      => TagAndAlias(k) /\ MemberIsVar

(* C10, amended: the same with struct and union; with enum the tag and
   the alias are as stated, and the member a is an enumerator: it has
   IN_ENUM, not VAR_DEF, and its record is ENUM_VAL DEFINITION with scope
   foo. *)
C10_TypedefRecords ==
   \A k \in {"struct", "union", "enum"} :
      (/\ stage = "done"
       /\ Lexemes \in TypedefPrograms(k))
      => /\ TagAndAlias(k)
         /\ IF k = "enum" THEN MemberIsEnumVal ELSE MemberIsVar

(* "typedef struct foo { int a; } foo_t;" is through the pipeline *)
C10_Witness ==
   /\ stage = "done"
   /\ Lexemes = TypedefProgram("struct", <<"int", "a", ";">>)
   /\ TagAndAlias("struct")
   /\ MemberIsVar

(***************************************************************************)
(* Properties of the lexer.  They are read off tk, the state of one run of *)
(* tokenize() under LexSpec.                                               *)
(***************************************************************************)

(* the buffer is a C++ raw string: a head R" or u8R", a tag and "(" *)
IsRawInput ==
   /\ Len(tk.parts) >= 3
   /\ tk.parts[1] \in RawHeads
   /\ tk.parts[2] \in RawTags
   /\ tk.parts[3] = <<"(">>

RawTag == tk.parts[2]
RawOpen == Len(tk.parts[1]) + Len(RawTag) + 1

(* the positions of a ")" after the opening paren that is followed by the
   whole tag and a quote *)
RawEnds ==
   {i \in (RawOpen + 1)..Len(tk.data) :
      /\ tk.data[i] = ")"
      /\ i + Len(RawTag) + 1 <= Len(tk.data)
      /\ SubSeq(tk.data, i + 1, i + Len(RawTag)) = RawTag
      /\ tk.data[i + Len(RawTag) + 1] = "\""}

(* C18 as stated: the raw string ends at the first ")" followed by a tag
   equal to TAG over its whole length and a quote, the chunk holding the
   bytes up to that quote and at most an identifier after it; without such
   a terminator the first chunk is no raw string, the cursor having been
   restored to the prefix. *)
C18_AsWritten ==
   (IsRawInput /\ Len(tk.list) >= 1) =>
      IF RawEnds = {}
      THEN tk.list[1].type = "WORD"
      ELSE LET e == Least(RawEnds) + Len(RawTag) + 1
           IN  /\ tk.list[1].type = "STRING"
               /\ Len(tk.list[1].str) >= e
               /\ SubSeq(tk.list[1].str, 1, e) = SubSeq(tk.data, 1, e)
               /\ \A k \in (e + 1)..Len(tk.list[1].str) :
                     IsKw2(tk.list[1].str[k])

(* the buffer is a string literal followed by further pieces; the literal
   is lexed as one string (the prefix u needs the C++ flag) *)
IsSuffixInput ==
   /\ Len(tk.parts) >= 1
   /\ tk.parts[1] \in SuffixHeads
   /\ (tk.parts[1][1] = "u" => "CPP" \in tk.lang)

(* the identifier that starts at byte k of the buffer, <<>> if none does *)
RECURSIVE IdentAt(_, _)
IdentAt(d, k) ==
   IF k <= Len(d) /\ IsKw2(d[k]) THEN <<d[k]>> \o IdentAt(d, k + 1)
   ELSE <<>>

SuffixIdent ==
   IF Len(tk.parts[1]) < Len(tk.data)
      /\ IsKw1(tk.data[Len(tk.parts[1]) + 1])
   THEN IdentAt(tk.data, Len(tk.parts[1]) + 1)
   ELSE <<>>

(* an L or S that opens the next literal is a prefix, not a suffix *)
SuffixIsPrefix ==
   /\ SuffixIdent \in {<<"L">>, <<"S">>}
   /\ Len(tk.parts[1]) + 1 < Len(tk.data)
   /\ tk.data[Len(tk.parts[1]) + 2] \in {"\"", "'"}

IsFormatMacro(id) ==
   /\ Len(id) >= 4
   /\ SubSeq(id, 1, 3) \in {<<"P", "R", "I">>, <<"S", "C", "N">>}

(* C20 as stated: an identifier right after the closing quote is appended
   to the string chunk, unless it has four or more characters and begins
   with PRI or SCN: then the string chunk ends at the quote and the
   identifier is the next chunk, starting right after the quote. *)
C20_AsWritten ==
   (/\ IsSuffixInput
    /\ SuffixIdent # <<>>
    /\ ~SuffixIsPrefix
    /\ Len(tk.list) >= 1) =>
      IF IsFormatMacro(SuffixIdent)
      THEN /\ tk.list[1].str = tk.parts[1]
           /\ Len(tk.list) >= 2 =>
                 /\ tk.list[2].str = SuffixIdent
                 /\ tk.list[2].orig_col = Len(tk.parts[1]) + 1
      ELSE tk.list[1].str = tk.parts[1] \o SuffixIdent

(* the buffer is "/+", pieces out of DPieces and a closing ";" *)
IsDInput ==
   /\ Len(tk.parts) >= 2
   /\ tk.parts[1] = <<"/", "+">>
   /\ tk.parts[Len(tk.parts)] = <<";">>
   /\ \A k \in 2..(Len(tk.parts) - 1) : tk.parts[k] \in DPieces

(* the nesting depth after each piece, read off the pieces and not off the
   bytes: "/+" opens a level and "+/" closes one *)
RECURSIVE DDepth(_, _)
DDepth(parts, k) ==
   IF k = 0 THEN 0
   ELSE DDepth(parts, k - 1)
        + (IF parts[k] = <<"/", "+">> THEN 1
           ELSE IF parts[k] = <<"+", "/">> THEN -1 ELSE 0)

(* the pieces at which the depth is back to zero *)
DClosers == {k \in 1..Len(tk.parts) : DDepth(tk.parts, k) = 0}

(* the number of bytes of the first k pieces *)
BytesOf(parts, k) == Len(Flatten(SubSeq(parts, 1, k)))

(* C19: with the D flag the comment opened by "/+" is one discarded span
   that ends with the "+/" bringing the depth back to zero, the next span
   starts at the byte after it and no chunk lies inside it; without the D
   flag the first chunk is the "/" alone. *)
C19_DComment ==
   (IsDInput /\ Len(tk.spans) >= 1) =>
      IF "D" \in tk.lang
      THEN DClosers # {} =>
              LET e == BytesOf(tk.parts, Least(DClosers))
              IN  /\ tk.spans[1] = [from |-> 0, to |-> e, kept |-> FALSE]
                  /\ Len(tk.spans) >= 2 => tk.spans[2].from = e
                  /\ \A k \in 1..Len(tk.list) : tk.list[k].orig_col > e
      ELSE /\ tk.spans[1] = [from |-> 0, to |-> 1, kept |-> TRUE]
           /\ tk.list[1].str = <<"/">>
           /\ tk.list[1].type # "WHITESPACE"

(* a nested comment was closed and the lexer went on with the ";" *)
C19_Witness ==
   /\ IsDInput
   /\ "D" \in tk.lang
   /\ LexDone
   /\ tk.parts[2] = <<"/", "+">>
   /\ DClosers # {}
   /\ Len(tk.list) = 1
   /\ tk.list[1].str = <<";">>
   /\ tk.list[1].orig_col = BytesOf(tk.parts, Least(DClosers)) + 1

(* chunk k of list is a "#" with no chunk or a NEWLINE before it *)
StartsLine(list, k) ==
   /\ list[k].str = <<"#">>
   /\ "PUNCTUATOR" \in list[k].flags
   /\ (k = 1 \/ list[k - 1].type = "NEWLINE")

(* chunk k of list is a PREPROC or comes after one with no NEWLINE from
   that one up to and including k *)
InPreprocLine(list, k) ==
   \E j \in 1..k :
      /\ list[j].type = "PREPROC"
      /\ \A i \in (j + 1)..k : list[i].type # "NEWLINE"

PreprocFlagged(list) ==
   \A k \in 1..Len(list) :
      /\ list[k].type = "PREPROC" <=> StartsLine(list, k)
      /\ "IN_PREPROC" \in list[k].flags <=> InPreprocLine(list, k)

(* C14: every step of tokenize() leaves the chunks already in the list as
   they were, and in the list it yields the "#" that start a line are the
   PREPROC chunks and the chunks that carry IN_PREPROC are those from a
   PREPROC up to, and not including, the next NEWLINE: NL_CONT chunks and
   the chunks of continuation lines carry it, the NEWLINE and the chunks
   after it do not until another "#" starts a line. *)
C14_InPreproc ==
   [][/\ Len(tk'.list) >= Len(tk.list)
      /\ SubSeq(tk'.list, 1, Len(tk.list)) = tk.list
      /\ PreprocFlagged(tk'.list)]_vars

(* a directive continued over a backslash-newline, its end and a chunk of
   the line after it *)
C14_Witness ==
   /\ LexDone
   /\ \E k \in 1..Len(tk.list) :
         /\ k + 4 <= Len(tk.list)
         /\ tk.list[k].type = "PREPROC"
         /\ tk.list[k + 2].type = "NL_CONT"
         /\ "IN_PREPROC" \in tk.list[k + 2].flags
         /\ "IN_PREPROC" \in tk.list[k + 3].flags
         /\ tk.list[k + 3].orig_line = tk.list[k].orig_line + 1
         /\ tk.list[k + 4].type = "NEWLINE"
         /\ "IN_PREPROC" \notin tk.list[k + 4].flags
         /\ k + 5 <= Len(tk.list)
         /\ "IN_PREPROC" \notin tk.list[k + 5].flags

(* the bytes of seq that are no whitespace *)
RECURSIVE NonWs(_)
NonWs(seq) ==
   IF seq = <<>> THEN <<>>
   ELSE (IF isspace(Head(seq)) THEN <<>> ELSE <<Head(seq)>>)
        \o NonWs(Tail(seq))

(* the spans among the first k that added a chunk *)
RECURSIVE KeptUpTo(_, _)
KeptUpTo(spans, k) ==
   IF k = 0 THEN 0
   ELSE KeptUpTo(spans, k - 1) + (IF spans[k].kept THEN 1 ELSE 0)

SpanBytes(k) == SubSeq(tk.data, tk.spans[k].from + 1, tk.spans[k].to)

(* the bytes span k dropped are those of a comment *)
IsCommentSpan(k) ==
   /\ tk.spans[k].to >= tk.spans[k].from + 2
   /\ tk.data[tk.spans[k].from + 1] = "/"
   /\ tk.data[tk.spans[k].from + 2]
         \in {"/", "*"} \cup (IF "D" \in tk.lang THEN {"+"} ELSE {})

(* the spans follow each other from byte 0 to the cursor, each one byte
   long at least, and one chunk was added for each span that kept one *)
SpansCover ==
   /\ Len(tk.spans) > 0 => tk.spans[1].from = 0
   /\ \A k \in 1..Len(tk.spans) :
         /\ tk.spans[k].to > tk.spans[k].from
         /\ tk.spans[k].to = (IF k = Len(tk.spans) THEN tk.c.idx
                              ELSE tk.spans[k + 1].from)
   /\ KeptUpTo(tk.spans, Len(tk.spans)) = Len(tk.list)

ChunkTexts == Flatten([k \in 1..Len(tk.list) |-> tk.list[k].str])

(* the texts of the chunks and, between them, the bytes that were dropped *)
Rebuilt ==
   Flatten([k \in 1..Len(tk.spans) |->
              IF tk.spans[k].kept
              THEN tk.list[KeptUpTo(tk.spans, k)].str
              ELSE SpanBytes(k)])

(* C13 as stated: what was dropped between the chunks is whitespace, so the
   texts of the chunks hold every byte of the input read so far that is no
   whitespace, in order. *)
C13_AsWritten ==
   /\ \A k \in 1..Len(tk.spans) :
         ~tk.spans[k].kept => \A i \in 1..Len(SpanBytes(k)) :
                                 isspace(SpanBytes(k)[i])
   /\ NonWs(ChunkTexts) = NonWs(SubSeq(tk.data, 1, tk.c.idx))

(* The same with the comments left out: the spans cover the input read so
   far without gap or overlap; a span that added no chunk is whitespace or
   a comment; the text of a chunk holds the bytes of its span that are no
   whitespace, so that the texts and the dropped spans together hold every
   such byte once, in order.  It fails where d_parse_string reads an
   escape sequence past the end of the input. *)
C13_Concatenation ==
   /\ SpansCover
   /\ \A k \in 1..Len(tk.spans) :
         IF tk.spans[k].kept
         THEN NonWs(tk.list[KeptUpTo(tk.spans, k)].str) = NonWs(SpanBytes(k))
         ELSE \/ \A i \in 1..Len(SpanBytes(k)) : isspace(SpanBytes(k)[i])
              \/ IsCommentSpan(k)
   /\ NonWs(Rebuilt) = NonWs(SubSeq(tk.data, 1, tk.c.idx))

(* a pragma body whose trailing blank was stripped and whose line goes on
   after a backslash-newline *)
C13_Witness ==
   /\ LexDone
   /\ \E k \in 1..Len(tk.spans) :
         /\ tk.spans[k].kept
         /\ tk.list[KeptUpTo(tk.spans, k)].type = "PREPROC_BODY"
         /\ tk.list[KeptUpTo(tk.spans, k)].str # SpanBytes(k)
         /\ k < Len(tk.spans)
         /\ tk.list[KeptUpTo(tk.spans, k) + 1].type = "NL_CONT"

(* the column reached from column col by the bytes of str: a tab goes to
   the next tab stop, a UTF-8 continuation byte does not move *)
RECURSIVE ColumnAfter(_, _)
ColumnAfter(str, col) ==
   IF str = <<>> THEN col
   ELSE ColumnAfter(Tail(str),
           IF Head(str) = "\t"
           THEN calc_next_tab_column(col, UO_input_tab_size)
           ELSE IF Head(str) \in ContBytes THEN col
           ELSE col + 1)

(* C17 as stated, for the chunks whose text has no newline in it: the end
   column is the start column plus the visual width of the text. *)
C17_AsWritten ==
   \A k \in 1..Len(tk.list) :
      (\A i \in 1..Len(tk.list[k].str) :
          tk.list[k].str[i] \notin {"\n", "\r"})
      => tk.list[k].orig_col_end
            = ColumnAfter(tk.list[k].str, tk.list[k].orig_col)

(* the buffer is a #define line *)
IsDefineInput ==
   /\ Len(tk.parts) >= 1
   /\ tk.parts[1] = <<"#", "d", "e", "f", "i", "n", "e", " ">>

IsIdentText(str) ==
   /\ Len(str) >= 1
   /\ IsKw1(str[1])
   /\ \A i \in 1..Len(str) : IsKw2(str[i])

(* the span that added chunk k *)
SpanOfChunk(k) ==
   CHOOSE s \in 1..Len(tk.spans) :
      tk.spans[s].kept /\ KeptUpTo(tk.spans, s) = k

(* the byte right after chunk k, EOF at the end of the buffer *)
ByteAfterChunk(k) ==
   IF tk.spans[SpanOfChunk(k)].to < Len(tk.data)
   THEN tk.data[tk.spans[SpanOfChunk(k)].to + 1] ELSE EOF

(* chunk k is on the line of the #define that opens the buffer *)
OnDefineLine(k) ==
   /\ k >= 3
   /\ \A i \in 1..k : tk.list[i].type # "NEWLINE"

(* chunk k is the first chunk after "define", continuations aside *)
FirstAfterDefine(k) ==
   /\ OnDefineLine(k)
   /\ tk.list[k].type # "NL_CONT"
   /\ \A i \in 3..(k - 1) : tk.list[i].type = "NL_CONT"

(* C11 as stated, at the lexer: the identifier that comes first after
   "define" is a MACRO_FUNC when the byte after it is "(" and a MACRO when
   it is not; every identifier after it on the line has the kind the
   keyword table gives it. *)
C11_AsWritten ==
   IsDefineInput =>
      \A k \in 1..Len(tk.list) :
         (OnDefineLine(k) /\ IsIdentText(tk.list[k].str)) =>
            IF FirstAfterDefine(k)
            THEN tk.list[k].type = (IF ByteAfterChunk(k) = "("
                                    THEN "MACRO_FUNC" ELSE "MACRO")
            ELSE (\E j \in 3..(k - 1) :
                     FirstAfterDefine(j) /\ IsIdentText(tk.list[j].str))
                 => tk.list[k].type
                       = find_keyword_bytes(tk.list[k].str, "PP_DEFINE",
                                            tk.lang)

(***************************************************************************)
(* Properties of the pipeline, continued.                                  *)
(***************************************************************************)

(* the atoms of a scope path: identifiers, the colon that joins two
   components, the tilde of a destructor and the two decorations *)
PathAtoms == Idents \cup {":", "~", "()", "{}"}

(* sc is a path: atoms of the path alphabet only, no colon first or last
   and no two colons in a row, so that no component is empty.  The empty
   scope, that of a chunk assign_scope passed over, is a path with no
   component. *)
IsScopePath(sc) ==
   /\ \A k \in 1..Len(sc) : sc[k] \in PathAtoms
   /\ Len(sc) > 0 => sc[1] # ":" /\ sc[Len(sc)] # ":"
   /\ \A k \in 1..(Len(sc) - 1) : ~(sc[k] = ":" /\ sc[k + 1] = ":")

(* C16 as stated: the scope of every record is made of the characters of
   the path alphabet only and has no two colons in a row. *)
C16_AsWritten == \A k \in 1..Len(out) : IsScopePath(out[k].scope)

(* C16: the scope of every record is one of the three default tags or a
   path of non-empty components joined by single colons, and the same holds
   of every scope assign_scope has written into a chunk. *)
C16_ScopePaths ==
   /\ \A k \in 1..Len(out) :
         out[k].scope \in DefaultTags \/ IsScopePath(out[k].scope)
   /\ \A i \in 1..Len(chunks) :
         chunks[i].scope \in DefaultTags \/ IsScopePath(chunks[i].scope)

(* the records of a file with the definition of N::C::m: the function has
   the path of its two resolved scopes, other records a default tag *)
C16_Witness ==
   /\ stage = "done"
   /\ \E k \in 1..Len(out) :
         out[k].text = "m" /\ out[k].scope = <<"N", ":", "C">>
   /\ \E k \in 1..Len(out) : out[k].scope \in DefaultTags

(* the chunks that close the open bracket i, by kind: the adjacent close
   kind at the level of i, with every chunk in between at a greater level *)
MatchesOf(cs, i) ==
   {j \in (i + 1)..Len(cs) :
       /\ cs[j].type = CloseOf(cs[i].type)
       /\ cs[j].level = cs[i].level
       /\ \A k \in (i + 1)..(j - 1) : cs[k].level > cs[i].level}

BracketsPaired(cs) ==
   \A i \in 1..Len(cs) :
      cs[i].type \in OpenKinds => Cardinality(MatchesOf(cs, i)) = 1

(* the same by text.  The lexer gives "(" and "{" the kinds PAREN_OPEN and
   BRACE_OPEN and the re-labeler changes neither the text nor the level of
   a chunk, so the list is paired by text exactly when the list that the
   re-labeler started from was paired. *)
CloseText(str) == IF str = "(" THEN ")" ELSE "}"

TextMatchesOf(cs, i) ==
   {j \in (i + 1)..Len(cs) :
       /\ cs[j].str = CloseText(cs[i].str)
       /\ cs[j].level = cs[i].level
       /\ \A k \in (i + 1)..(j - 1) : cs[k].level > cs[i].level}

StreamWasPaired(cs) ==
   \A i \in 1..Len(cs) :
      cs[i].str \in {"(", "{"} => Cardinality(TextMatchesOf(cs, i)) = 1

(* C15: when the list that came out of brace_cleanup was paired, then
   after every step of the re-labeler and of the passes that follow it
   every open bracket still has exactly one chunk of the adjacent close
   kind at its level, with every chunk between the two at a greater
   level *)
C15_Pairing == StreamWasPaired(chunks) => BracketsPaired(chunks)

(* mark_function_type has retagged both pairs of a function type in a
   paired list and the re-labeler has finished *)
C15_Witness ==
   /\ stage = "done"
   /\ StreamWasPaired(chunks)
   /\ \E i, j \in 1..Len(chunks) :
         /\ chunks[i].type = "TPAREN_OPEN"
         /\ chunks[j].type = "FPAREN_OPEN"
         /\ chunks[j].parent_type \in {"FUNC_PROTO", "FUNC_DEF"}
         /\ MatchesOf(chunks, i) # {}
         /\ i < j

(* the position of record r is not behind the position of record q *)
NotBehind(r, q) ==
   \/ r.line < q.line
   \/ (r.line = q.line /\ r.column <= q.column)

(* C12: at every point of the run of output(), of any two records emitted
   one after the other the later one has a (line, column) that is not
   smaller than that of the earlier one, also when the re-labeler has
   split a "[]" chunk in two before *)
C12_SourceOrder ==
   \A k \in 1..(Len(out) - 1) : NotBehind(out[k], out[k + 1])

(* output() has finished on a list in which handle_cpp_lambda split a
   "[]": records were emitted for chunks on both sides of the added
   chunk, and for chunks of two lines *)
C12_Witness ==
   /\ stage = "done"
   /\ \E i \in 1..Len(chunks) :
         /\ chunks[i].type = "SQUARE_CLOSE"
         /\ chunks[i].parent_type = "CPP_LAMBDA"
         /\ chunks[i].orig_col = chunks[i - 1].orig_col + 1
         /\ \E k \in 1..(Len(out) - 1) : out[k].idx < i /\ i < out[k + 1].idx
   /\ \E k \in 1..(Len(out) - 1) : out[k].line < out[k + 1].line

(***************************************************************************)
(* C29: get_resolved_scopes and assign_scope never read a field of a       *)
(* missing chunk: no run of the pipeline ends in the read of next->type or *)
(* prev->type of a NULL chunk.  A tag that ends the line of a #define and  *)
(* has its body on the next line is flagged DEF by fix_enum_struct_union,  *)
(* which walks the list with CNAV_ALL, and assign_scope then asks for its  *)
(* next chunk with CNAV_PREPROC, which is NULL at the end of the line.     *)
(***************************************************************************)
C29_AsWritten == stage # "crashed"

(***************************************************************************)
(* C30: after the re-labeler has run no chunk carries more than one of the *)
(* flags DEF, PROTO and REF.  In C++ a struct tag with a base class is     *)
(* flagged REF by fix_enum_struct_union, which finds a colon and not a     *)
(* brace after the tag, and DEF by mark_class_ctor, which skips to the     *)
(* brace.                                                                  *)
(***************************************************************************)
TagFlags == {"DEF", "PROTO", "REF"}

C30_AsWritten ==
   stage \in {"pass2", "scope", "output", "done"}
      => \A i \in 1..Len(chunks) :
            Cardinality(chunks[i].flags \cap TagFlags) <= 1

(***************************************************************************)
(* C26: the kind do_symbol_check gives a STAR chunk.                       *)
(***************************************************************************)
Greatest(S) == CHOOSE x \in S : \A y \in S : y <= x

TypeRunKinds == {"WORD", "TYPE", "PTR_TYPE", "STRUCT", "DC_MEMBER",
                 "QUALIFIER"}

(* the chunks up to p that are neither newlines nor part of a type *)
RunStops(cs, p) ==
   {j \in 1..p : ~chunk_is_newline(cs, j) /\ cs[j].type \notin TypeRunKinds}

(* p ends a type: the words, types, qualifiers, stars of a type and ::
   that end in p start the file, or follow a semicolon, the typedef
   keyword or a brace, or follow the open paren of a statement while the
   first of them is an lvalue *)
EndsType(cs, p) ==
   IF RunStops(cs, p) = {} THEN TRUE
   ELSE LET s == Greatest(RunStops(cs, p))
            first == Least({j \in (s + 1)..p : ~chunk_is_newline(cs, j)})
        IN  s < p
            /\ \/ chunk_is_semicolon(cs, s)
               \/ cs[s].type \in {"TYPEDEF", "BRACE_OPEN", "BRACE_CLOSE"}
               \/ cs[s].type = "SPAREN_OPEN" /\ HasFlag(cs[first], "LVALUE")

(* the nearest chunks of i that are not newlines, as fix_symbols hands
   them to do_symbol_check *)
StarPrev(i) == At(chunks, chunk_get_prev_nnl(chunks, i, "CNAV_PREPROC"))
StarNext(i) == At(chunks, chunk_get_next_nnl(chunks, i, "CNAV_PREPROC"))

PrevEndsType(i) ==
   \/ /\ StarPrev(i).type = "WORD"
      /\ EndsType(chunks, chunk_get_prev_nnl(chunks, i, "CNAV_PREPROC"))
   \/ StarPrev(i).type \in {"DC_MEMBER", "PTR_TYPE"}

NextClosesType(i) ==
   StarNext(i).type \in {"PAREN_CLOSE", "SPAREN_CLOSE", "FPAREN_CLOSE",
                         "TPAREN_CLOSE", "COMMA"}

(* a punctuator that can only be followed by an operand: any but ], ::
   and a close paren, the close paren of the parameters of a function-like
   macro included *)
PrevWantsOperand(i) ==
   /\ HasFlag(StarPrev(i), "PUNCTUATOR")
   /\ StarPrev(i).type \notin {"SQUARE_CLOSE", "DC_MEMBER"}
   /\ \/ StarPrev(i).type \notin {"PAREN_CLOSE", "SPAREN_CLOSE",
                                  "FPAREN_CLOSE", "TPAREN_CLOSE"}
      \/ StarPrev(i).parent_type = "MACRO_FUNC"

(* the step of the first pass at the chunk cur, a STAR *)
StarStep ==
   /\ stage = "pass1" /\ stage' = "pass1"
   /\ cur # NULL
   /\ chunks[cur].type = "STAR"

(* C26, as stated: PTR_TYPE only where the previous token ends a type or
   the next is a close paren, a comma or [, DEREF only after sizeof/delete
   or at an expression start, and ARITH wherever neither holds *)
C26_AsWritten ==
   [][StarStep =>
         LET ptr == PrevEndsType(cur) \/ NextClosesType(cur)
                    \/ StarNext(cur).type = "SQUARE_OPEN"
             deref == StarPrev(cur).type \in {"SIZEOF", "DELETE"}
                      \/ HasFlag(chunks[cur], "EXPR_START")
             kind == chunks'[cur].type
         IN  /\ kind \in {"PTR_TYPE", "DEREF", "ARITH"}
             /\ kind = "PTR_TYPE" => ptr
             /\ kind = "DEREF" => deref
             /\ kind = "ARITH" => ~ptr /\ ~deref]_vars

(* C26, corrected: the rules are tried in this order.  A star at an
   expression start is a DEREF (a PTR_TYPE after the > of a template);
   otherwise a star before a close paren or a comma is a PTR_TYPE; after
   sizeof or delete it is a DEREF; after a token that ends a type, or
   before [, it is a PTR_TYPE; after a punctuator that wants an operand it
   is a DEREF; in every other case it is ARITH. *)
C26_StarKinds ==
   [][StarStep =>
         chunks'[cur].type =
            IF HasFlag(chunks[cur], "EXPR_START")
            THEN (IF StarPrev(cur).type = "ANGLE_CLOSE"
                  THEN "PTR_TYPE" ELSE "DEREF")
            ELSE IF NextClosesType(cur) THEN "PTR_TYPE"
            ELSE IF StarPrev(cur).type \in {"SIZEOF", "DELETE"} THEN "DEREF"
            ELSE IF PrevEndsType(cur) \/ StarNext(cur).type = "SQUARE_OPEN"
            THEN "PTR_TYPE"
            ELSE IF PrevWantsOperand(cur) THEN "DEREF"
            ELSE "ARITH"]_vars

(* the star after the parameters of a function-like macro has been made a
   DEREF, and the first pass is still running *)
C26_Witness ==
   /\ stage = "pass1"
   /\ \E i \in 2..Len(chunks) :
         /\ chunks[i].str = "*" /\ chunks[i].type = "DEREF"
         /\ ~HasFlag(chunks[i], "EXPR_START")
         /\ chunks[i - 1].type = "FPAREN_CLOSE"
         /\ chunks[i - 1].parent_type = "MACRO_FUNC"

(***************************************************************************)
(* The forward scan of mark_function                                       *)
(***************************************************************************)
(* the close paren of the parameter list of the function name at i, and the
   first chunk after it that is not a newline *)
FcnCloseOf(i) ==
   LET S == {j \in (i + 1)..Len(chunks) :
                chunks[j].type = "FPAREN_CLOSE"
                /\ chunks[j].level = chunks[i].level}
   IN  IF S = {} THEN NULL ELSE Least(S)

FcnAfterClose(i) ==
   IF FcnCloseOf(i) = NULL THEN NULL
   ELSE LET S == {j \in (FcnCloseOf(i) + 1)..Len(chunks) :
                     chunks[j].type # "NEWLINE"}
        IN  IF S = {} THEN NULL ELSE Least(S)

(* a name that mark_function has taken as a definition or prototype
   candidate: one of the three kinds the forward scan leaves behind *)
FcnCandidate(i) ==
   /\ chunks[i].type \in {"FUNC_DEF", "FUNC_PROTO", "FUNC_CTOR_VAR"}
   /\ i < Len(chunks) /\ chunks[i + 1].type = "FPAREN_OPEN"

(* C22: after the first pass, a candidate whose close paren is followed at
   the name's level by "{" is a FUNC_DEF, by ";" a FUNC_PROTO, and by ","
   a FUNC_CTOR_VAR flagged VAR_DEF *)
C22_AsWritten ==
   (stage \in {"pass2", "scope", "output", "done"} /\ lang = {"C"}) =>
      \A i \in 1..Len(chunks) :
         (FcnCandidate(i) /\ FcnAfterClose(i) # NULL
          /\ chunks[FcnAfterClose(i)].level = chunks[i].level) =>
            /\ chunks[FcnAfterClose(i)].type = "BRACE_OPEN"
                  => chunks[i].type = "FUNC_DEF"
            /\ chunks[FcnAfterClose(i)].type = "SEMICOLON"
                  => chunks[i].type = "FUNC_PROTO"
            /\ chunks[FcnAfterClose(i)].type = "COMMA"
                  => /\ chunks[i].type = "FUNC_CTOR_VAR"
                     /\ "VAR_DEF" \in chunks[i].flags

(* C23: after the first pass, a candidate whose close paren is followed by
   neither "{" nor ";" at the name's level before the chunk list ends is
   not a FUNC_DEF *)
C23_AsWritten ==
   stage \in {"pass2", "scope", "output", "done"} =>
      \A i \in 1..Len(chunks) :
         (FcnCandidate(i) /\ FcnCloseOf(i) # NULL
          /\ \A j \in (FcnCloseOf(i) + 1)..Len(chunks) :
                /\ chunks[j].level >= chunks[i].level
                /\ chunks[j].level = chunks[i].level
                      => chunks[j].type \notin {"BRACE_OPEN", "SEMICOLON"})
            => chunks[i].type # "FUNC_DEF"

(***************************************************************************)
(* The 2nd pass of fix_symbols: variable definitions                       *)
(***************************************************************************)
VarMarks == {"VAR_DEF", "VAR_DECL", "STATIC"}

(* the chunks of a..b that are not newlines *)
NonNl(a, b) == {k \in a..b : chunks[k].type # "NEWLINE"}

VarTypeLike(k) ==
   \/ chunks[k].type \in {"TYPE", "WORD", "QUALIFIER", "DC_MEMBER", "MEMBER"}
   \/ chunk_is_star(chunks, k) \/ chunk_is_addr(chunks, k)

(* the leading run of type-like chunks of the statement at cur, its last
   chunk and the chunk after it *)
VarRun == {k \in NonNl(cur, Len(chunks)) : \A j \in NonNl(cur, k) : VarTypeLike(j)}

VarName == Greatest(VarRun)

VarRunEnd ==
   IF NonNl(VarName + 1, Len(chunks)) = {} THEN NULL
   ELSE Least(NonNl(VarName + 1, Len(chunks)))

(* the run is a name qualified from its first chunk on: word, member
   operator, word, ..., name *)
VarNoTypePart ==
   /\ Cardinality(VarRun) >= 3
   /\ Cardinality(VarRun) % 2 = 1
   /\ \A k \in VarRun \ {VarName} :
         IF Cardinality({j \in VarRun : j < k}) % 2 = 0
         THEN chunks[k].type \in {"WORD", "TYPE"}
         ELSE chunks[k].type \in {"DC_MEMBER", "MEMBER"}

(* the statement at cur is taken for a variable definition *)
VarApplies ==
   /\ HasFlag(chunks[cur], "STMT_START")
   /\ chunks[cur].type \in {"QUALIFIER", "TYPE", "WORD"}
   /\ chunks[cur].parent_type # "ENUM"
   /\ ~HasFlag(chunks[cur], "IN_ENUM")
   /\ Cardinality(VarRun) >= 2
   /\ VarRunEnd # NULL
   /\ chunks[VarRunEnd].type \notin {"FUNC_DEF", "FUNC_PROTO", "FUNC_CLASS",
                                     "OPERATOR"}
   /\ ~VarNoTypePart

(* the flags the names of the statement get *)
VarFlagsOfRun ==
   (IF \E k \in VarRun : chunks[k].type = "QUALIFIER"
                         /\ chunks[k].str = "extern"
    THEN {"VAR_DECL"} ELSE {"VAR_DEF"})
   \cup (IF \E k \in VarRun : chunks[k].type = "QUALIFIER"
                              /\ chunks[k].str = "static"
         THEN {"STATIC"} ELSE {})

(* k lies in an initializer or an array bound of the declarator list: after
   a "=" or "[" at the level of the name and before the next "," or ";" of
   that level *)
VarCovered(k) ==
   \E a \in VarName..(k - 1) :
      /\ chunks[a].type \in {"ASSIGN", "SQUARE_OPEN"}
      /\ chunks[a].level = chunks[VarName].level
      /\ \A m \in NonNl(a, k) :
            /\ chunks[m].level >= chunks[VarName].level
            /\ chunks[m].level = chunks[VarName].level
                  => ~chunk_is_semicolon(chunks, m)
                     /\ chunks[m].type # "COMMA"

(* the chunks of the declarator list: from the name up to the ";" or to the
   first chunk of another level, initializers and array bounds excluded *)
VarDeclList ==
   {j \in NonNl(VarName, Len(chunks)) :
       /\ ~VarCovered(j)
       /\ \A k \in NonNl(VarName, j) :
             \/ VarCovered(k)
             \/ /\ chunks[k].level = chunks[VarName].level
                /\ ~chunk_is_semicolon(chunks, k)}

VarMarked ==
   {j \in VarDeclList : /\ chunks[j].type \in {"WORD", "FUNC_CTOR_VAR"}
                        /\ ~HasFlag(chunks[j], "IN_ENUM")}

(* a step of the 2nd pass *)
VarPassStep == stage = "pass2" /\ stage' = "pass2" /\ cur # NULL

(* C25 as stated: at a statement start of kind QUALIFIER, TYPE or WORD that
   is not inside [ ], the last chunk of the leading run and every WORD that
   follows a "," of the level of the name before the ";" get the flags of
   the run *)
C25_AsWritten ==
   [][(/\ VarPassStep
       /\ sqlvl' < 0
       /\ HasFlag(chunks[cur], "STMT_START")
       /\ chunks[cur].type \in {"QUALIFIER", "TYPE", "WORD"}
       /\ chunks[cur].parent_type # "ENUM"
       /\ ~HasFlag(chunks[cur], "IN_ENUM"))
      => VarFlagsOfRun \subseteq chunks'[VarName].flags]_vars

(* C25, amended: a step of the 2nd pass changes the flags VAR_DEF, VAR_DECL
   and STATIC of no chunk, except at a statement start of kind QUALIFIER,
   TYPE or WORD reached with square_level unset, whose leading run has two
   or more chunks, is not a name qualified from its first chunk on, and is
   followed by a chunk that is not a function name.  There the words of the
   declarator list that do not carry IN_ENUM get VAR_DEF (VAR_DECL if the
   run has extern) and STATIC if the run has static, and nothing else
   does: no chunk of an initializer or of an array bound, and no chunk
   after the ";" or after the first chunk of another level *)
C25_VarDefs ==
   [][VarPassStep =>
         \A j \in 1..Len(chunks) :
            chunks'[j].flags \cap VarMarks =
               (chunks[j].flags \cap VarMarks)
               \cup (IF sqlvl' < 0 /\ VarApplies /\ j \in VarMarked
                     THEN VarFlagsOfRun ELSE {})]_vars

(* C25, the case: a static definition with an initializer has been marked,
   the word after the "," carries VAR_DEF and STATIC and the word of the
   initializer carries neither *)
C25_Witness ==
   /\ stage = "scope"
   /\ \E i \in 3..Len(chunks) :
         /\ chunks[i].type = "WORD"
         /\ {"VAR_DEF", "STATIC"} \subseteq chunks[i].flags
         /\ chunks[i - 1].type = "COMMA"
         /\ chunks[i - 2].type = "WORD"
         /\ chunks[i - 2].flags \cap VarMarks = {}
         /\ chunks[i - 3].type = "ASSIGN"

(***************************************************************************)
(* combine_labels (tokenize.cpp): the kinds of the ':' chunks.  lbl holds  *)
(* the locals of the function: the three cursors prev, cur and next,       *)
(* question_count, hit_case and hit_class.                                 *)
(***************************************************************************)
(* the statements of the files combine_labels runs on *)
LabelStmts ==
   {<<"x", "=", "a", "?", "b", ":", "1", ";">>,
    <<"x", "=", "a", "?", "b", "?", "1", ":", "a", ":", "b", ";">>,
    <<"case", "1", ":", "x", ";">>,
    <<"case", "a", "?", "1", ":", "b", ":", "x", ";">>,
    <<"default", ":", "x", ";">>,
    <<"\n", "foo", ":", "x", ";">>,
    <<"int", "a", ":", "1", ";">>,
    <<"int", "a", ":", "b", "?", "1", ":", "1", ";">>,
    <<"int", ":", "1", ";">>,
    <<"f", "(", "a", ":", "b", ")", ";">>}

LabelFiles ==
   {<<"{", "\n">> \o s1 \o s2 \o <<"}">> : s1, s2 \in LabelStmts}
   \cup {<<"a", "?", "b", ":", "1", ";">>, <<"\n", "\n", ":", "x", ";">>}

(* the locals after the three assignments in front of the loop *)
LabelStart(cs) ==
   [prev           |-> chunk_get_head(cs),
    cur            |-> chunk_get_next(cs, chunk_get_head(cs), "CNAV_ALL"),
    next           |-> chunk_get_next(cs,
                          chunk_get_next(cs, chunk_get_head(cs), "CNAV_ALL"),
                          "CNAV_ALL"),
    question_count |-> 0,
    hit_case       |-> FALSE,
    hit_class      |-> FALSE]

(* the bit-field branch: every COLON from the second chunk after the colon
   up to the next SEMICOLON becomes a BIT_COLON *)
RECURSIVE LabelBitColons(_, _)
LabelBitColons(cs, tmp0) ==
   LET Step(tmp) ==
          IF tmp = NULL THEN cs
          ELSE IF cs[tmp].type = "SEMICOLON" THEN cs
          ELSE LabelBitColons(IF cs[tmp].type = "COLON"
                              THEN SetType(cs, tmp, "BIT_COLON") ELSE cs,
                              tmp)
   IN  Step(chunk_get_next(cs, tmp0, "CNAV_ALL"))

(* a colon with a WORD in front that no earlier rule has taken *)
LabelWordColon(cs, l) ==
   LET tmp == chunk_get_next(cs, l.next, "CNAV_PREPROC")
   IN  IF chunk_is_newline(cs, l.prev)
          /\ (tmp = NULL \/ cs[tmp].type # "NUMBER")
       THEN SetType(SetType(cs, l.cur, "LABEL"), l.next, "LABEL_COLON")
       ELSE IF HasFlag(cs[l.next], "IN_FCN_CALL")
       THEN SetType(cs, l.next, "LABEL_COLON")
       ELSE LabelBitColons(SetType(cs, l.next, "BIT_COLON"),
                           chunk_get_next(cs, l.next, "CNAV_ALL"))

(* the Pawn rule: a tag or a label *)
LabelPawnColon(cs, l) ==
   IF cs[l.cur].type \in {"WORD", "BRACE_CLOSE"}
   THEN LET lab == chunk_is_newline(cs, l.prev)
                   /\ chunk_is_newline(cs, chunk_get_next(cs, l.next,
                                                          "CNAV_ALL"))
            cs1 == SetType(cs, l.next,
                           IF lab THEN "LABEL_COLON" ELSE "TAG_COLON")
        IN  IF cs[l.cur].type = "WORD"
            THEN SetType(cs1, l.cur, IF lab THEN "LABEL" ELSE "TAG")
            ELSE cs1
   ELSE cs

(* the colon at l.next is reached with no '?' outstanding and no case: the
   rule reads nextprev->type with nextprev NULL *)
LabelNullDeref(cs, l, L) ==
   /\ "PAWN" \notin L
   /\ cs[l.next].flags \cap {"IN_ARRAY_ASSIGN", "IN_FOR", "OC_BOXED"} = {}
   /\ cs[l.cur].type # "WORD"
   /\ chunk_get_prev_nnl(cs, l.next, "CNAV_ALL") = NULL

(* the last branch of the colon rule: label, bit field, class colon, for
   colon.  The branches that only log or ignore the colon leave the list
   as it is. *)
LabelOtherColon(cs, l, L) ==
   IF "PAWN" \in L THEN LabelPawnColon(cs, l)
   ELSE IF HasFlag(cs[l.next], "IN_ARRAY_ASSIGN")
   THEN SetType(cs, l.next, "D_ARRAY_COLON")
   ELSE IF HasFlag(cs[l.next], "IN_FOR")
   THEN SetType(cs, l.next, "FOR_COLON")
   ELSE IF HasFlag(cs[l.next], "OC_BOXED")
   THEN SetType(cs, l.next, "OC_DICT_COLON")
   ELSE IF cs[l.cur].type = "WORD" THEN LabelWordColon(cs, l)
   ELSE IF At(cs, chunk_get_prev_nnl(cs, l.next, "CNAV_ALL")).type
              = "FPAREN_CLOSE"
   THEN SetType(cs, l.next, "CLASS_COLON")
   ELSE IF cs[l.next].level > cs[l.next].brace_level THEN cs
   ELSE IF cs[l.cur].type = "TYPE" THEN SetType(cs, l.next, "BIT_COLON")
   ELSE cs

(* a colon after case or default: the colon and the braces of the case *)
LabelCaseColon(cs, l) ==
   LET tmp == chunk_get_next_nnl(cs, l.next, "CNAV_ALL")
       cs1 == SetType(cs, l.next, "CASE_COLON")
   IN  IF tmp # NULL /\ cs[tmp].type = "BRACE_OPEN"
       THEN SetParent(SetParent(cs1, tmp, "CASE"),
                      chunk_get_next_type(cs1, tmp, "BRACE_CLOSE",
                                          cs1[tmp].level, "CNAV_ALL"),
                      "CASE")
       ELSE cs1

(* the body of the loop for the chunk l.next: the list and the locals *)
combine_labels_body(cs, l, L) ==
   LET n   == cs[l.next]
       hc1 == IF ~HasFlag(n, "IN_OC_MSG")
                 /\ n.type \in {"CLASS", "OC_CLASS", "TEMPLATE"}
              THEN TRUE ELSE l.hit_class
       l1  == [l EXCEPT !.hit_class =
                  IF chunk_is_semicolon(cs, l.next) \/ n.type = "BRACE_OPEN"
                  THEN FALSE ELSE hc1]
       dft == cs[l.cur].type = "DEFAULT"
       cs1 == IF dft THEN SetType(cs, l.cur, "CASE") ELSE cs
       l2  == IF dft THEN [l1 EXCEPT !.hit_case = TRUE] ELSE l1
   IN  IF n.type = "QUESTION"
       THEN [cs |-> cs, l |-> [l1 EXCEPT !.question_count = @ + 1]]
       ELSE IF n.type = "CASE"
       THEN (IF cs[l.cur].type = "GOTO"
             THEN [cs |-> SetType(cs, l.next, "QUALIFIER"), l |-> l1]
             ELSE [cs |-> cs, l |-> [l1 EXCEPT !.hit_case = TRUE]])
       ELSE IF n.type = "COLON"
       THEN (IF l2.question_count > 0
             THEN [cs |-> SetType(cs1, l.next, "COND_COLON"),
                   l  |-> [l2 EXCEPT !.question_count = @ - 1]]
             ELSE IF l2.hit_case
             THEN [cs |-> LabelCaseColon(cs1, l2),
                   l  |-> [l2 EXCEPT !.hit_case = FALSE]]
             ELSE [cs |-> LabelOtherColon(cs1, l2, L), l |-> l2])
       ELSE [cs |-> cs, l |-> l1]

LabelInit ==
   /\ chunks \in {Lex(p, {"C"}) : p \in LabelFiles}
   /\ lang = {"C"}
   /\ stage = "labels"
   /\ cur = NULL
   /\ sqlvl = -1
   /\ out = <<>>
   /\ tk = <<>>
   /\ lbl = LabelStart(chunks)

(* one iteration of the while loop of combine_labels.  Reading the type of
   a NULL chunk ends the run. *)
LabelStep ==
   /\ stage = "labels"
   /\ lbl.next # NULL
   /\ IF chunks[lbl.next].type = "COLON" /\ lbl.question_count = 0
         /\ ~lbl.hit_case /\ chunks[lbl.cur].type # "DEFAULT"
         /\ LabelNullDeref(chunks, lbl, lang)
      THEN stage' = "crashed" /\ UNCHANGED <<chunks, lbl>>
      ELSE LET r == combine_labels_body(chunks, lbl, lang)
           IN  /\ chunks' = r.cs
               /\ lbl' = [r.l EXCEPT !.prev = lbl.cur, !.cur = lbl.next,
                                     !.next = chunk_get_next(r.cs, lbl.next,
                                                             "CNAV_ALL")]
               /\ stage' = stage
   /\ UNCHANGED <<lang, cur, sqlvl, out, tk>>

LabelNext == LabelStep

LabelSpec == LabelInit /\ [][LabelNext]_vars

(* combine_labels has returned *)
LabelDone == stage = "labels" /\ lbl.next = NULL

(* the '?' chunks among the chunks 3..k of the list, the first chunk the
   loop looks at being the third, that no ':' has answered yet: a '?' adds
   one and a ':' met with a '?' outstanding takes one away *)
RECURSIVE Outstanding(_)
Outstanding(k) ==
   IF k <= 2 THEN 0
   ELSE IF chunks[k].type = "QUESTION" THEN Outstanding(k - 1) + 1
   ELSE IF chunks[k].str = ":" /\ Outstanding(k - 1) > 0
   THEN Outstanding(k - 1) - 1
   ELSE Outstanding(k - 1)

(* C27: when combine_labels has returned, a ':' chunk is a COND_COLON
   exactly when a '?' in front of it is still unanswered, and a CASE_COLON,
   LABEL_COLON, BIT_COLON, CLASS_COLON or FOR_COLON only when none is *)
C27_AsWritten ==
   LabelDone =>
      \A i \in 3..Len(chunks) :
         chunks[i].str = ":" =>
            /\ chunks[i].type = "COND_COLON" <=> Outstanding(i - 1) > 0
            /\ chunks[i].type \in {"CASE_COLON", "LABEL_COLON", "BIT_COLON",
                                   "CLASS_COLON", "FOR_COLON"}
                  => Outstanding(i - 1) = 0

(***************************************************************************)
(* Lexical offenders                                                       *)
(***************************************************************************)
(* the text of the chunk opens with a double quote and has no second one:
   a string literal the input ended in *)
OpenString(c) ==
   /\ Len(c.str) > 0
   /\ c.str[1] = "\""
   /\ \A k \in 2..Len(c.str) : c.str[k] # "\""

(* C21: when tokenize() has returned, the chunk of a byte that no token rule
   takes and the chunk of a string literal without its closing quote are of
   kind UNKNOWN, and the cursor is at the end of the buffer *)
C21_AsWritten ==
   LexDone =>
      /\ tk.c.idx = Len(tk.data)
      /\ \A k \in 1..Len(tk.list) :
            /\ tk.list[k].str = <<"\\">> => tk.list[k].type = "UNKNOWN"
            /\ OpenString(tk.list[k]) => tk.list[k].type = "UNKNOWN"

(***************************************************************************)
(* Termination of tokenize()                                               *)
(***************************************************************************)
(* tokenize() is called on one of the buffers, and then runs its loop: a
   sequential loop, of which the next iteration is run for as long as the
   buffer has bytes left *)
LexIdle ==
   /\ tk = <<>>
   /\ chunks = <<>>
   /\ lang = {}
   /\ stage = "idle"
   /\ cur = NULL
   /\ sqlvl = -1
   /\ out = <<>>
   /\ lbl = <<>>

LexCall ==
   /\ stage = "idle"
   /\ tk' \in {LexStart(i) : i \in LexInputs}
   /\ stage' = "lex"
   /\ UNCHANGED <<chunks, lang, cur, sqlvl, out, lbl>>

LexLoop == stage = "lex" /\ TokenizeStep

LexLiveNext == LexCall \/ LexLoop

(* the loop is being run and its condition ctx.more() holds; an iteration
   always changes the state, so this is when LexLoop is enabled *)
LexRunning == stage = "lex" /\ ctx_more(tk.data, tk.c)

(* weak fairness of the loop: it is not left standing at an iteration it
   can run *)
LexFair == []<>(~LexRunning) \/ []<><<LexLoop>>_vars

LexLiveSpec == LexIdle /\ [][LexLiveNext]_vars /\ LexFair

(* C28: every iteration of the loop of tokenize() leaves the cursor at
   least one byte further and inside the buffer, so there are never more
   iterations than bytes read, and once tokenize() is called the loop comes
   to its end with the cursor at the end of the buffer *)
C28_Terminates ==
   /\ [][stage = "lex" => /\ tk'.c.idx > tk.c.idx
                          /\ tk'.c.idx <= Len(tk.data)
                          /\ Len(tk'.spans) = Len(tk.spans) + 1]_vars
   /\ [](stage = "lex" => Len(tk.spans) <= tk.c.idx)
   /\ [](stage = "lex"
          => <>[](stage = "lex" /\ LexDone /\ tk.c.idx = Len(tk.data)))

(* C28, the case: tokenize() has returned from a buffer of the D language
   in which an escape sequence, a rule that saves the cursor, was cut short
   by the end of the input, after more than one iteration *)
C28_Witness ==
   /\ stage = "lex"
   /\ LexDone
   /\ "D" \in tk.lang
   /\ Len(tk.spans) >= 2
   /\ Len(tk.data) >= 2
   /\ tk.data[Len(tk.data) - 1] = "\\"
   /\ tk.data[Len(tk.data)] = "x"
   /\ tk.spans[Len(tk.spans)].from = Len(tk.data) - 2

(***************************************************************************)
(* Casts: files with a paren pair in front of an operand, run through the  *)
(* pipeline.                                                               *)
(***************************************************************************)
CastHeads == {<<>>, <<"\n">>, <<"x", "=">>, <<"x", "=", "1", "+">>,
              <<"#", "if", "defined">>}
CastInners == {<<"foo">>, <<"Foo">>, <<"a_t">>, <<"foo_t">>, <<"MAX">>,
               <<"int">>, <<"T", "*">>, <<"foo", "x">>, <<"static">>,
               <<"\n", "MAX">>}
CastTails == {<<"*", "y">>, <<"&", "y">>, <<"+", "y">>, <<"-", "y">>,
              <<"+", "1">>, <<"-", "1">>, <<"*", "1">>, <<"-", "\"s\"">>,
              <<"y">>, <<"1">>, <<"(", "y", ")">>, <<"{", "}">>, <<"=", "y">>,
              <<",", "y">>, <<>>}

CastFiles ==
   {h \o <<"(">> \o i \o <<")">> \o t \o <<";">> :
       h \in CastHeads, i \in CastInners, t \in CastTails}
   \cup {<<"x", "=", "(">> \o <<"(">> \o i \o <<")">> \o <<")", ";">> :
            i \in CastInners}
   \cup {<<"(">> \o i \o <<")">> \o t : i \in CastInners,
                                         t \in {<<>>, <<"*">>, <<"y">>}}
   \cup {<<"x", "=", "(", "MAX", ")", "(", "Foo", ")", "*", "y", ";">>,
         <<"x", "=", "sizeof", "(", "foo", ")", "*", "y", ";">>,
         <<"#", "define", "X", "defined", "(", "foo", ")", "y", "\n">>}

CastInit ==
   /\ \E p \in CastFiles : chunks = Lex(p, {"C"})
   /\ lang = {"C"}
   /\ stage = "start"
   /\ cur = NULL
   /\ sqlvl = -1
   /\ out = <<>>
   /\ tk = <<>>
   /\ lbl = <<>>

CastSpec == CastInit /\ [][Next]_vars

(* the main loop of fix_symbols is on a paren pair that do_symbol_check
   hands to fix_casts *)
CastCalled ==
   /\ stage = "pass1"
   /\ cur # NULL
   /\ CastCandidate(chunks, chunk_get_prev_nnl(chunks, cur, "CNAV_PREPROC"),
                    cur, chunk_get_next_nnl(chunks, cur, "CNAV_PREPROC"),
                    lang)

(* the close paren of the pair that opens at cur, the chunks inside the
   pair and the chunk after it, read off the text and the levels *)
LeastOrNull(S) == IF S = {} THEN NULL ELSE Least(S)

CastPairClose ==
   LeastOrNull({j \in cur + 1..Len(chunks) :
                   chunks[j].str = ")" /\ chunks[j].level = chunks[cur].level})

CastPairInside ==
   {j \in cur + 1..CastPairClose - 1 : chunks[j].str # "\n"}

CastPairNext ==
   IF CastPairClose = NULL THEN NULL
   ELSE LeastOrNull({j \in CastPairClose + 1..Len(chunks) :
                        chunks[j].str # "\n"})

CastPairPrev ==
   IF \A j \in 1..cur - 1 : chunks[j].str = "\n" THEN NULL
   ELSE Greatest({j \in 1..cur - 1 : chunks[j].str # "\n"})

(* a word that is neither all in upper case nor ends in "_t" *)
MixedCaseWords == {"foo", "Foo", "x", "y", "a", "b", "f", "g", "v", "s", "m"}

CastFollowedByEnd ==
   /\ CastPairClose # NULL
   /\ CastPairNext # NULL
   /\ chunks[CastPairNext].str \in {";", ",", ")"}

CastAfterDefined ==
   /\ CastPairPrev # NULL
   /\ chunks[CastPairPrev].str = "defined"

CastMixedWord ==
   /\ CastPairClose # NULL
   /\ CastPairNext # NULL
   /\ \E j \in CastPairInside :
         /\ CastPairInside = {j}
         /\ chunks[j].type = "WORD"
         /\ chunks[j].str \in MixedCaseWords
   /\ chunks[CastPairNext].str \in {"*", "&", "+", "-"}

(* C24: when fix_casts is called on a paren pair whose close paren is
   followed by ";", "," or ")", or that follows "defined", or that holds
   one mixed-case word and is followed by "*", "&", "+" or "-", the pair
   is not marked C_CAST; and whenever the call leaves the pair unmarked,
   no chunk has changed its kind, parent kind or flags. *)
C24_Rejections ==
   [][CastCalled =>
        /\ (CastFollowedByEnd \/ CastAfterDefined \/ CastMixedWord)
              => /\ chunks'[cur].parent_type # "C_CAST"
                 /\ CastPairClose # NULL
                       => chunks'[CastPairClose].parent_type # "C_CAST"
        /\ chunks'[cur].parent_type # "C_CAST"
              => /\ Len(chunks') = Len(chunks)
                 /\ \A j \in 1..Len(chunks) :
                       /\ chunks'[j].type = chunks[j].type
                       /\ chunks'[j].parent_type = chunks[j].parent_type
                       /\ chunks'[j].flags = chunks[j].flags]_vars

(* the first pair of "x = (MAX)(Foo) * y;" has been taken as a cast and
   the second, a mixed-case word in front of a star, has just been
   rejected *)
C24_Witness ==
   /\ stage = "pass1"
   /\ Len(chunks) = 11
   /\ cur = 7
   /\ chunks[3].parent_type = "C_CAST"
   /\ chunks[4].str = "MAX" /\ chunks[4].type = "TYPE"
   /\ chunks[6].str = "(" /\ chunks[6].parent_type = "NONE"
   /\ chunks[7].str = "Foo" /\ chunks[7].type = "WORD"
   /\ chunks[9].str = "*"

====
